---------------------------- MODULE Spec2Model ----------------------------
(***************************************************************************)
(* Model of the block_blue content script (src/content/content.js): the    *)
(* badge classifier, the identity extractor, the follow-state tracker, the *)
(* decision engine, the hide/restore engine and the scan scheduler, with   *)
(* the page, the user, the extension storage and the host runtime as the   *)
(* environment.                                                            *)
(*                                                                         *)
(* The DOM is a forest: `body` is the sequence of nodes under the document *)
(* body (intermediate wrappers flattened away), kids[c] is the child       *)
(* sequence of container c, and blockBlueOriginal[c] is the off-tree       *)
(* fragment that replaceWithPlaceholder hangs on the element.  A node is a *)
(* record; Elem(c) refers to the container element c.                      *)
(***************************************************************************)
EXTENDS Integers, Sequences, FiniteSets, TLC

VARIABLES
    settings,            \* content.js:76   cached plugin settings
    whitelistSet,        \* content.js:85
    followedUsersSet,    \* content.js:91
    followedSaveTimer,   \* content.js:94   number of pending 2 s persist timers
    hiddenCount,         \* content.js:97
    observer,            \* content.js:100  TRUE while a MutationObserver is connected
    saveTimer,           \* content.js:103  TRUE while the 1 s timer is pending
    onFollowingTab,      \* content.js:360  _onFollowingTab: "null", "true" or "false"
    body,                \* the page: nodes under document.body
    kids,                \* the page: child sequence of every container element
    blockBlueOriginal,   \* element._blockBlueOriginal: [has, nodes]
    processedAttr,       \* elements carrying data-block-blue-processed
    replacedAttr,        \* elements carrying data-block-blue-replaced
    records,             \* addedNodes of the MutationRecords not yet delivered
    pathname,            \* location.pathname
    activeTab,           \* text of the [role=tab][aria-selected=true] control
    sync,                \* chrome.storage.sync contents
    local,               \* chrome.storage.local followedUsers
    contextValid,        \* chrome.runtime.id is set
    initPc,              \* position of init(): "start", "sync", "local", "done", "dead"
    listeners,           \* the chrome.runtime / chrome.storage listeners of init are registered
    loadsSync,           \* loadSettings() calls suspended at the storage.sync read
    loadsLocal,          \* loadSettings() calls suspended at the storage.local read
    rescanTimers,        \* pending setTimeout(rescanAll, 500) callbacks
    intervalOn,          \* the setInterval of init is registered
    lastOp,              \* the handler that ran last, and what it hid (observation only)
    unit,                \* position of the single-container harness (SpecUnit only)
    served               \* parity of the callbacks run so far (counted in SpecQuiet only)

vars == << settings, whitelistSet, followedUsersSet, followedSaveTimer,
           hiddenCount, observer, saveTimer, onFollowingTab, body, kids,
           blockBlueOriginal, processedAttr, replacedAttr, records, pathname,
           activeTab, sync, local, contextValid, initPc, listeners, loadsSync,
           loadsLocal, rescanTimers, intervalOn, lastOp, unit, served >>

---------------------------------------------------------------------------
(* Bounds of the model.                                                    *)

\* Overlapping loadSettings() calls started by the listeners.
MaxLoads == 1
\* Pending navigation settle timers.
MaxRescanTimers == 1
\* Graphic elements per container in the single-container harness.
MaxSvgs == 2
MaxStoredCount == 2
MaxOverlap == 2

---------------------------------------------------------------------------
(* Values.                                                                 *)

Null == "null"

BADGE_TYPES == [BLUE |-> "blue", GOLD |-> "gold", GRAY |-> "gray"]

Tiers == {BADGE_TYPES.BLUE, BADGE_TYPES.GOLD, BADGE_TYPES.GRAY}

Containers == {"t1", "t2", "u1", "u2"}

\* data-testid of the container elements (SELECTORS match both).
TestId(c) == IF c \in {"t1", "t2"} THEN "tweet" ELSE "UserCell"

SELECTORS == {"tweet", "UserCell"}

Elem(c) == [kind |-> "element", id |-> c]

Link(href) == [kind |-> "a", href |-> href]

\* A [role=button] control: its data-testid and its text.
Button(testid, text) == [kind |-> "button", testid |-> testid, text |-> text]

Rgb(r, g, b) == [fmt |-> "rgb", r |-> r, g |-> g, b |-> b]

Svg(label, viewBox, paths, color, inStatusLink) ==
    [kind |-> "svg", ariaLabel |-> label, viewBox |-> viewBox,
     paths |-> paths, color |-> color, inStatusLink |-> inStatusLink]

\* The placeholder bar built by replaceWithPlaceholder for element c.
Bar(c, badgeType) == [kind |-> "bar", of |-> c, dot |-> badgeType]

\* Resolved colours used by the pages of the model.
TwitterBlue == Rgb(29, 155, 240)
TwitterGold == Rgb(229, 175, 29)
TwitterGray == Rgb(130, 154, 171)
White == Rgb(255, 255, 255)
Translucent == [fmt |-> "rgba", r |-> 29, g |-> 155, b |-> 240]
\* getComputedStyle of an element that is not connected to the document has
\* no declarations: every property reads as the empty string.
NoStyle == [fmt |-> "", r |-> 0, g |-> 0, b |-> 0]

---------------------------------------------------------------------------
(* String functions of the code, as tables over the strings of the model.  *)

\* String.prototype.toLowerCase
ToLowerCase(str) ==
    CASE str = "Alice" -> "alice"
      [] str = "Bob" -> "bob"
      [] str = "Verified account" -> "verified account"
      [] str = "Following" -> "following"
      [] str = "Follow" -> "follow"
      [] str = "Like" -> "like"
      [] OTHER -> str

\* content.js:38  label.includes(kw) for some kw of VERIFIED_KEYWORDS
IncludesVerifiedKeyword(label) == label \in {"verified account"}

\* content.js:51  FOLLOWING_KEYWORDS
FOLLOWING_KEYWORDS == {"following"}

\* href.match(/^\/([a-zA-Z0-9_]{1,15})$/): the captured group, or Null.
ProfileMatch(path) ==
    CASE path = "/alice" -> "alice"
      [] path = "/Bob" -> "Bob"
      [] path = "/home" -> "home"
      [] OTHER -> Null

\* testId.match(/^(.+)-unfollow$/): the captured group, or Null.
UnfollowMatch(testId) ==
    CASE testId = "alice-unfollow" -> "alice"
      [] testId = "Bob-unfollow" -> "Bob"
      [] testId = "1890123456789012345-unfollow" -> "1890123456789012345"
      [] OTHER -> Null

---------------------------------------------------------------------------
(* DOM queries.                                                            *)

RECURSIVE Descendants(_, _)
\* The nodes below a node sequence, in document order (querySelectorAll).
Descendants(k, seq) ==
    IF seq = << >> THEN << >>
    ELSE LET n == Head(seq)
         IN  << n >>
             \o (IF n.kind = "element" THEN Descendants(k, k[n.id]) ELSE << >>)
             \o Descendants(k, Tail(seq))

Range(seq) == { seq[i] : i \in 1..Len(seq) }

SelectSeqKind(seq, kind) == SelectSeq(seq, LAMBDA n : n.kind = kind)

\* document.querySelectorAll('*') under document.body
DocumentNodes(s) == Descendants(s.kids, s.body)

\* element.isConnected
IsConnected(s, c) == Elem(c) \in Range(DocumentNodes(s))

\* The container elements under a node sequence, the root nodes included.
ContainersIn(k, seq) ==
    LET els == SelectSeqKind(Descendants(k, seq), "element")
    IN  [ i \in 1..Len(els) |-> els[i].id ]

---------------------------------------------------------------------------
(* Badge detection: content.js:170-220                                     *)

isVerifiedBadge(svg) ==
    IF svg.kind # "svg" THEN FALSE
    ELSE LET label == ToLowerCase(svg.ariaLabel)
         IN  IF label # "" /\ IncludesVerifiedKeyword(label) THEN TRUE
             ELSE IF svg.viewBox = "0 0 22 22" /\ svg.paths >= 2 THEN TRUE
             ELSE FALSE

Abs(x) == IF x < 0 THEN -x ELSE x

\* getComputedStyle(svg).color: the resolved colour when the graphic is
\* connected to the document, the empty string otherwise.
ComputedColor(s, c, svg) == IF IsConnected(s, c) THEN svg.color ELSE NoStyle

\* Mutant: a colour outside the three buckets counts as gray.
getBadgeColorType_fallback(color) ==
    IF color.fmt # "rgb" THEN BADGE_TYPES.GRAY
    ELSE LET r == color.r
             g == color.g
             b == color.b
         IN  IF b > 180 /\ r < 80 THEN BADGE_TYPES.BLUE
             ELSE IF r > 180 /\ g > 140 /\ b < 80 THEN BADGE_TYPES.GOLD
             ELSE BADGE_TYPES.GRAY

\* Mutant: the Gray bucket also compares red with blue and includes both
\* ends of the red range.
getBadgeColorType_pairwise(color) ==
    IF color.fmt # "rgb" THEN Null
    ELSE LET r == color.r
             g == color.g
             b == color.b
         IN  IF b > 180 /\ r < 80 THEN BADGE_TYPES.BLUE
             ELSE IF r > 180 /\ g > 140 /\ b < 80 THEN BADGE_TYPES.GOLD
             ELSE IF /\ Abs(r - g) < 40 /\ Abs(g - b) < 40 /\ Abs(r - b) < 40
                     /\ r >= 70 /\ r <= 200
                  THEN BADGE_TYPES.GRAY
             ELSE Null

getBadgeColorType(color) ==
    IF color.fmt # "rgb" THEN Null
    ELSE LET r == color.r
             g == color.g
             b == color.b
         IN  IF b > 180 /\ r < 80 THEN BADGE_TYPES.BLUE
             ELSE IF r > 180 /\ g > 140 /\ b < 80 THEN BADGE_TYPES.GOLD
             ELSE IF Abs(r - g) < 40 /\ Abs(g - b) < 40 /\ r > 70 /\ r < 200
                  THEN BADGE_TYPES.GRAY
             ELSE Null

---------------------------------------------------------------------------
(* Username extraction: content.js:233-242                                 *)

RECURSIVE FirstProfile(_)
FirstProfile(links) ==
    IF links = << >> THEN Null
    ELSE LET m == ProfileMatch(Head(links).href)
         IN  IF m # Null THEN ToLowerCase(m) ELSE FirstProfile(Tail(links))

extractUsername(s, c) ==
    FirstProfile(SelectSeqKind(Descendants(s.kids, s.kids[c]), "a"))

---------------------------------------------------------------------------
(* Decision: content.js:492-527                                            *)

RECURSIVE FirstBadgeType_firstOnly(_, _, _)
\* Mutant: the loop stops at the first qualifying badge, recognised or not.
FirstBadgeType_firstOnly(s, c, svgs) ==
    IF svgs = << >> THEN Null
    ELSE LET svg == Head(svgs)
         IN  IF ~isVerifiedBadge(svg) THEN FirstBadgeType_firstOnly(s, c, Tail(svgs))
             ELSE IF svg.inStatusLink THEN FirstBadgeType_firstOnly(s, c, Tail(svgs))
             ELSE getBadgeColorType(ComputedColor(s, c, svg))

RECURSIVE FirstBadgeType(_, _, _)
\* The loop of getBlockBadgeType over the svgs of the element.
FirstBadgeType(s, c, svgs) ==
    IF svgs = << >> THEN Null
    ELSE LET svg == Head(svgs)
         IN  IF ~isVerifiedBadge(svg) THEN FirstBadgeType(s, c, Tail(svgs))
             ELSE IF svg.inStatusLink THEN FirstBadgeType(s, c, Tail(svgs))
             ELSE LET badgeType == getBadgeColorType(ComputedColor(s, c, svg))
                  IN  IF badgeType # Null THEN badgeType
                      ELSE FirstBadgeType(s, c, Tail(svgs))

BadgeTypeOf(s, c) ==
    FirstBadgeType(s, c, SelectSeqKind(Descendants(s.kids, s.kids[c]), "svg"))

\* Mutant: the FollowCache test of line 524 is left out.
getBlockBadgeType_noFollowed(s, c) ==
    IF ~s.settings.enabled THEN Null
    ELSE LET badgeType == BadgeTypeOf(s, c)
             username == extractUsername(s, c)
         IN  IF badgeType = Null THEN Null
             ELSE IF badgeType = BADGE_TYPES.BLUE /\ ~s.settings.hideBlue THEN Null
             ELSE IF badgeType = BADGE_TYPES.GOLD /\ ~s.settings.hideGold THEN Null
             ELSE IF badgeType = BADGE_TYPES.GRAY /\ ~s.settings.hideGray THEN Null
             ELSE IF username # Null /\ username \in s.whitelistSet THEN Null
             ELSE badgeType

\* Mutant: the enabled test of line 493 is left out.
getBlockBadgeType_noEnabled(s, c) ==
    LET badgeType == BadgeTypeOf(s, c)
        username == extractUsername(s, c)
    IN  IF badgeType = Null THEN Null
        ELSE IF badgeType = BADGE_TYPES.BLUE /\ ~s.settings.hideBlue THEN Null
        ELSE IF badgeType = BADGE_TYPES.GOLD /\ ~s.settings.hideGold THEN Null
        ELSE IF badgeType = BADGE_TYPES.GRAY /\ ~s.settings.hideGray THEN Null
        ELSE IF username # Null /\ username \in s.whitelistSet THEN Null
        ELSE IF username # Null /\ username \in s.followedUsersSet THEN Null
        ELSE badgeType

\* Mutant: the gold tier is tested against the blue toggle.
getBlockBadgeType_goldToggle(s, c) ==
    IF ~s.settings.enabled THEN Null
    ELSE LET badgeType == BadgeTypeOf(s, c)
             username == extractUsername(s, c)
         IN  IF badgeType = Null THEN Null
             ELSE IF badgeType = BADGE_TYPES.BLUE /\ ~s.settings.hideBlue THEN Null
             ELSE IF badgeType = BADGE_TYPES.GOLD /\ ~s.settings.hideBlue THEN Null
             ELSE IF badgeType = BADGE_TYPES.GRAY /\ ~s.settings.hideGray THEN Null
             ELSE IF username # Null /\ username \in s.whitelistSet THEN Null
             ELSE IF username # Null /\ username \in s.followedUsersSet THEN Null
             ELSE badgeType

getBlockBadgeType(s, c) ==
    IF ~s.settings.enabled THEN Null
    ELSE LET badgeType == BadgeTypeOf(s, c)
             username == extractUsername(s, c)
         IN  IF badgeType = Null THEN Null
             ELSE IF badgeType = BADGE_TYPES.BLUE /\ ~s.settings.hideBlue THEN Null
             ELSE IF badgeType = BADGE_TYPES.GOLD /\ ~s.settings.hideGold THEN Null
             ELSE IF badgeType = BADGE_TYPES.GRAY /\ ~s.settings.hideGray THEN Null
             ELSE IF username # Null /\ username \in s.whitelistSet THEN Null
             ELSE IF username # Null /\ username \in s.followedUsersSet THEN Null
             ELSE badgeType

---------------------------------------------------------------------------
(* The state the handlers work on, as one record.  A handler is an         *)
(* operator from such a record to the record it leaves behind.  `hid`      *)
(* lists the calls of replaceWithPlaceholder made by the running handler;  *)
(* `raised` tells that the handler was ended by an exception.              *)

Cur ==
    [settings |-> settings, whitelistSet |-> whitelistSet,
     followedUsersSet |-> followedUsersSet,
     followedSaveTimer |-> followedSaveTimer, hiddenCount |-> hiddenCount,
     observer |-> observer, saveTimer |-> saveTimer,
     onFollowingTab |-> onFollowingTab, body |-> body, kids |-> kids,
     blockBlueOriginal |-> blockBlueOriginal, processedAttr |-> processedAttr,
     replacedAttr |-> replacedAttr, records |-> records,
     pathname |-> pathname, activeTab |-> activeTab,
     contextValid |-> contextValid, hid |-> << >>, raised |-> FALSE]

\* A MutationRecord with these addedNodes is queued when a connected
\* observer sees a child list change below document.body.
Observe(s, c, nodes) ==
    IF s.observer /\ IsConnected(s, c) THEN s.records \o nodes ELSE s.records

NoOriginal == [has |-> FALSE, nodes |-> << >>]

---------------------------------------------------------------------------
(* Hide / restore: content.js:412-472                                      *)

\* Mutant: the children are removed without being kept.
replaceWithPlaceholder_noStash(s, c, badgeType) ==
    LET bar == Bar(c, badgeType)
    IN  [s EXCEPT
           !.blockBlueOriginal[c] = [has |-> TRUE, nodes |-> << >>],
           !.kids[c] = << bar >>,
           !.replacedAttr = @ \cup {c},
           !.records = Observe(s, c, << bar >>),
           !.hid = Append(@, [el |-> c, wasReplaced |-> c \in s.replacedAttr])]

\* With the runtime gone chrome.i18n.getMessage (content.js:436) throws
\* ("all chrome.* APIs throw", content.js:10): the children are in the
\* fragment and the marker is set (414-422), the bar is never appended.
replaceWithPlaceholder(s, c, badgeType) ==
    LET bar == Bar(c, badgeType)
    IN  IF ~s.contextValid
        THEN [s EXCEPT
                !.blockBlueOriginal[c] = [has |-> TRUE, nodes |-> s.kids[c]],
                !.kids[c] = << >>,
                !.replacedAttr = @ \cup {c},
                !.raised = TRUE]
        ELSE [s EXCEPT
                !.blockBlueOriginal[c] = [has |-> TRUE, nodes |-> s.kids[c]],
                !.kids[c] = << bar >>,
                !.replacedAttr = @ \cup {c},
                !.records = Observe(s, c, << bar >>),
                !.hid = Append(@, [el |-> c, wasReplaced |-> c \in s.replacedAttr])]

\* Mutant: the placeholder is not removed before the content comes back.
restoreElement_keepBar(s, c) ==
    LET original == s.blockBlueOriginal[c]
    IN  IF ~original.has THEN s
        ELSE [s EXCEPT
                !.kids[c] = @ \o original.nodes,
                !.replacedAttr = @ \ {c},
                !.blockBlueOriginal[c] = NoOriginal,
                !.records = Observe(s, c, original.nodes)]

restoreElement(s, c) ==
    LET original == s.blockBlueOriginal[c]
    IN  IF ~original.has THEN s
        ELSE [s EXCEPT
                !.kids[c] = original.nodes,
                !.replacedAttr = @ \ {c},
                !.blockBlueOriginal[c] = NoOriginal,
                !.records = Observe(s, c, original.nodes)]

---------------------------------------------------------------------------
(* Processing: content.js:535-566                                          *)

\* Mutant: the processed marker is set but not tested.
processElement_noGuard(s, c) ==
    LET s1 == [s EXCEPT !.processedAttr = @ \cup {c}]
        badgeType == getBlockBadgeType(s1, c)
    IN  IF s.raised THEN s
        ELSE IF badgeType = Null THEN s1
        ELSE IF s.contextValid
        THEN [replaceWithPlaceholder(s1, c, badgeType)
                EXCEPT !.hiddenCount = @ + 1]
        ELSE replaceWithPlaceholder(s1, c, badgeType)

\* After an exception nothing more of the handler runs: processElement
\* leaves a raised state as it is.  hiddenCount++ (541) is reached only
\* when replaceWithPlaceholder returned, that is with a valid runtime.
processElement(s, c) ==
    IF c \in s.processedAttr \/ s.raised THEN s
    ELSE LET s1 == [s EXCEPT !.processedAttr = @ \cup {c}]
             badgeType == getBlockBadgeType(s1, c)
         IN  IF badgeType = Null THEN s1
             ELSE IF s.contextValid
             THEN [replaceWithPlaceholder(s1, c, badgeType)
                     EXCEPT !.hiddenCount = @ + 1]
             ELSE replaceWithPlaceholder(s1, c, badgeType)

RECURSIVE processElements(_, _)
\* for (const el of elements) processElement(el)
processElements(s, elements) ==
    IF elements = << >> THEN s
    ELSE processElements(processElement(s, Head(elements)), Tail(elements))

\* processTree(root) for a node of the page.  Only elements are walked; the
\* element list is taken after the root itself was processed.
processTree(s, root) ==
    IF root.kind # "element" THEN s
    ELSE LET s1 == processElement(s, root.id)
         IN  processElements(s1, ContainersIn(s1.kids, s1.kids[root.id]))

\* processTree(document.body)
processTreeBody(s) == processElements(s, ContainersIn(s.kids, s.body))

---------------------------------------------------------------------------
(* Follow-state tracker: content.js:251-389                                *)

\* Mutant: the pending timer is not cleared.
debouncedSaveFollowedUsers_noClear(s) ==
    [s EXCEPT !.followedSaveTimer = @ + 1]

\* clearTimeout of the pending timer, if any, then setTimeout(..., 2000)
debouncedSaveFollowedUsers(s) ==
    [s EXCEPT !.followedSaveTimer = (IF @ > 0 THEN @ - 1 ELSE 0) + 1]

markAsFollowed(s, username) ==
    IF username = Null \/ username = "" \/ username \in s.followedUsersSet
    THEN s
    ELSE debouncedSaveFollowedUsers(
             [s EXCEPT !.followedUsersSet = @ \cup {username}])

RECURSIVE markAll(_, _)
markAll(s, usernames) ==
    IF usernames = << >> THEN s
    ELSE markAll(markAsFollowed(s, Head(usernames)), Tail(usernames))

\* text.includes(kw) for some kw of FOLLOWING_KEYWORDS
IncludesFollowingKeyword(text) == text \in {"following"}

\* The value isOnFollowingTab() computes when nothing is cached.
FollowingTabQuery(s) ==
    IF s.pathname \notin {"/", "/home"} THEN FALSE
    ELSE IncludesFollowingKeyword(ToLowerCase(s.activeTab))

isOnFollowingTab(s) ==
    IF s.onFollowingTab # "null" THEN s.onFollowingTab = "true"
    ELSE FollowingTabQuery(s)

\* The cache isOnFollowingTab() leaves behind.
isOnFollowingTabCache(s) ==
    IF s.onFollowingTab # "null" THEN s.onFollowingTab
    ELSE IF FollowingTabQuery(s) THEN "true" ELSE "false"

\* The container whose child list holds element c, or Null under body.
ParentOf(s, c) ==
    IF \E p \in Containers : Elem(c) \in Range(s.kids[p])
    THEN CHOOSE p \in Containers : Elem(c) \in Range(s.kids[p])
    ELSE Null

RECURSIVE ClosestUserCell(_, _)
\* btn.closest('[data-testid="UserCell"], ...') for a control directly in c
ClosestUserCell(s, c) ==
    IF c = Null THEN Null
    ELSE IF TestId(c) = "UserCell" THEN c
    ELSE ClosestUserCell(s, ParentOf(s, c))

\* name + "-unfollow"
UnfollowTestId(name) ==
    CASE name = "alice" -> "alice-unfollow"
      [] name = "Bob" -> "Bob-unfollow"
      [] name = "bob" -> "bob-unfollow"
      [] OTHER -> "-unfollow"

\* Mutant: the tab signal finds no author.
TweetAuthors_none(s) == << >>

\* Signal 1: the authors of the tweets of the document.
TweetAuthors(s) ==
    LET tweets == SelectSeq(ContainersIn(s.kids, s.body),
                            LAMBDA c : TestId(c) = "tweet")
    IN  [ i \in 1..Len(tweets) |-> extractUsername(s, tweets[i]) ]

\* Signal 2: the screen names of the [data-testid$="-unfollow"] controls.
UnfollowNames(s) ==
    LET btns == SelectSeq(SelectSeqKind(DocumentNodes(s), "button"),
                          LAMBDA b : UnfollowMatch(b.testid) # Null)
    IN  [ i \in 1..Len(btns) |-> ToLowerCase(UnfollowMatch(btns[i].testid)) ]

\* Signal 2: the controls under a UserCell whose text is a "Following"
\* keyword, each giving the username of its closest UserCell.
FollowingButtonNames(s) ==
    LET cs == SelectSeq(ContainersIn(s.kids, s.body),
                 LAMBDA c : /\ ClosestUserCell(s, c) # Null
                            /\ \E b \in Range(SelectSeqKind(s.kids[c], "button")) :
                                  ToLowerCase(b.text) \in FOLLOWING_KEYWORDS)
    IN  [ i \in 1..Len(cs) |-> extractUsername(s, ClosestUserCell(s, cs[i])) ]

\* Signal 3: the profile of the current path shows an unfollow control.
ProfileNames(s) ==
    LET profileMatch == ProfileMatch(s.pathname)
    IN  IF profileMatch = Null THEN << >>
        ELSE IF \E b \in Range(SelectSeqKind(DocumentNodes(s), "button")) :
                  b.testid \in {UnfollowTestId(profileMatch),
                                UnfollowTestId(ToLowerCase(profileMatch))}
             THEN << ToLowerCase(profileMatch) >>
             ELSE << >>

scanPageForFollowedUsers(s) ==
    LET s1 == [s EXCEPT !.onFollowingTab = isOnFollowingTabCache(s)]
        s2 == IF isOnFollowingTab(s) THEN markAll(s1, TweetAuthors(s1)) ELSE s1
        s3 == markAll(s2, UnfollowNames(s2))
        s4 == markAll(s3, FollowingButtonNames(s3))
    IN  markAll(s4, ProfileNames(s4))

---------------------------------------------------------------------------
(* Scan scheduler: content.js:150-156, 575-653                             *)

\* debouncedSaveHiddenCount: clearTimeout, then setTimeout(..., 1000)
debouncedSaveHiddenCount(s) == [s EXCEPT !.saveTimer = TRUE]

\* startObserver: a new observer; what the old one had queued is dropped.
startObserver(s) == [s EXCEPT !.observer = TRUE, !.records = << >>]

\* Mutant: the observer is left connected.
stopObserver_keep(s) == s

stopObserver(s) == [s EXCEPT !.observer = FALSE, !.records = << >>]

RECURSIVE restoreElements(_, _)
restoreElements(s, elements) ==
    IF elements = << >> THEN s
    ELSE restoreElements(restoreElement(s, Head(elements)), Tail(elements))

\* Mutant: the replaced elements are not restored.
restoreReplaced_none(s) == s

\* document.querySelectorAll('[data-block-blue-replaced]').forEach(restore)
restoreReplaced(s) ==
    restoreElements(s, SelectSeq(ContainersIn(s.kids, s.body),
                                 LAMBDA c : c \in s.replacedAttr))

\* document.querySelectorAll('[data-block-blue-processed]') loses the mark
clearProcessed(s) ==
    [s EXCEPT !.processedAttr = @ \ Range(ContainersIn(s.kids, s.body))]

\* Mutant: the processed markers are cleared before the elements are restored.
rescanPrepare_clearFirst(s) ==
    LET s1 == scanPageForFollowedUsers([s EXCEPT !.onFollowingTab = "null"])
        s2 == clearProcessed(s1)
        s3 == restoreReplaced(s2)
    IN  [s3 EXCEPT !.hiddenCount = 0]

\* Mutant: the rescan starts from an empty followed-users cache.
rescanPrepare_clearCache(s) ==
    LET s1 == scanPageForFollowedUsers([s EXCEPT !.onFollowingTab = "null",
                                                 !.followedUsersSet = {}])
        s2 == restoreReplaced(s1)
        s3 == clearProcessed(s2)
    IN  [s3 EXCEPT !.hiddenCount = 0]

\* rescanAll up to, and without, the re-walk of the document.
rescanPrepare(s) ==
    LET s1 == scanPageForFollowedUsers([s EXCEPT !.onFollowingTab = "null"])
        s2 == restoreReplaced(s1)
        s3 == clearProcessed(s2)
    IN  [s3 EXCEPT !.hiddenCount = 0]

\* Only with the runtime gone can the walk be ended by the exception of
\* replaceWithPlaceholder; startObserver and debouncedSaveHiddenCount are
\* then not reached.
rescanAll(s) ==
    LET s1 == rescanPrepare(s)
        walked == processTreeBody(s1)
    IN  IF ~s1.settings.enabled
        THEN debouncedSaveHiddenCount(stopObserver(s1))
        ELSE IF s.contextValid
        THEN debouncedSaveHiddenCount(startObserver(walked))
        ELSE IF walked.raised THEN walked
        ELSE debouncedSaveHiddenCount(startObserver(walked))

RECURSIVE processNodes(_, _)
processNodes(s, nodes) ==
    IF nodes = << >> THEN s
    ELSE processNodes(processTree(s, Head(nodes)), Tail(nodes))

\* handleMutations for a batch of records with these addedNodes
handleMutations(s, addedNodes) ==
    IF ~s.settings.enabled \/ ~s.contextValid THEN s
    ELSE debouncedSaveHiddenCount(
             processNodes(scanPageForFollowedUsers(s), addedNodes))

---------------------------------------------------------------------------
(* Settings: content.js:109-145                                            *)

DEFAULT_SETTINGS ==
    [enabled |-> TRUE, hideBlue |-> TRUE, hideGold |-> FALSE,
     hideGray |-> FALSE, whitelist |-> << >>, hiddenCount |-> 0]

\* The settings object of content.js:76 (DEFAULT_SETTINGS without the count).
InitialSettings ==
    [enabled |-> TRUE, hideBlue |-> TRUE, hideGold |-> FALSE,
     hideGray |-> FALSE, whitelist |-> << >>]

\* The configurations the popup stores in the runs of the model.
Configs ==
    { InitialSettings,
      [InitialSettings EXCEPT !.enabled = FALSE],
      [InitialSettings EXCEPT !.whitelist = << "Alice" >>] }

ConfigOf(stored) ==
    [enabled |-> stored.enabled, hideBlue |-> stored.hideBlue,
     hideGold |-> stored.hideGold, hideGray |-> stored.hideGray,
     whitelist |-> stored.whitelist]

\* Mutant: the allow-list set is not rebuilt from the stored list.
loadSettingsSync_keepWhitelist(s, result) ==
    [s EXCEPT !.settings = ConfigOf(result),
              !.hiddenCount = result.hiddenCount]

\* loadSettings, from the storage.sync result to the second validity check
loadSettingsSync(s, result) ==
    [s EXCEPT !.settings = ConfigOf(result),
              !.whitelistSet = { ToLowerCase(u) : u \in Range(result.whitelist) },
              !.hiddenCount = result.hiddenCount]

\* loadSettings, from the storage.local result to its end
loadSettingsLocal(s, followedUsers) ==
    [s EXCEPT !.followedUsersSet = @ \cup followedUsers]

---------------------------------------------------------------------------
(* The pages of the model.                                                 *)

VerifiedBlue == Svg("Verified account", "0 0 22 22", 2, TwitterBlue, FALSE)

FollowButton == Button("Bob-follow", "Follow")
UnfollowButton == Button("Bob-unfollow", "Following")

\* t1: a post of alice.  t2: a post of Bob that embeds the profile card u1
\* of alice.  u2: a profile card of Bob with its follow control.
PageKids ==
    [c \in Containers |->
        CASE c = "t1" -> << Link("/alice"), VerifiedBlue >>
          [] c = "t2" -> << Link("/Bob"), VerifiedBlue, Elem("u1") >>
          [] c = "u1" -> << Link("/alice"), VerifiedBlue >>
          [] c = "u2" -> << Link("/Bob"), FollowButton >>]

\* The containers the page inserts under document.body.
TopLevel == {"t1", "t2", "u2"}

Pathnames == {"/home", "/Bob"}

Tabs == {"For you", "Following"}

---------------------------------------------------------------------------
(* The state machine.                                                      *)

\* The handlers lastOp tells apart.
ObservedOps == {"init", "mutations", "click", "tick", "rescan"}

\* The variables a handler writes, taken from the record it leaves behind.
\* lastOp notes the handler, the hides it made, for a full rescan the
\* elements that were replaced when it began, and whether an exception
\* ended the handler.
Commit(s, op) ==
    /\ settings' = s.settings
    /\ whitelistSet' = s.whitelistSet
    /\ followedUsersSet' = s.followedUsersSet
    /\ followedSaveTimer' = s.followedSaveTimer
    /\ hiddenCount' = s.hiddenCount
    /\ observer' = s.observer
    /\ saveTimer' = s.saveTimer
    /\ onFollowingTab' = s.onFollowingTab
    /\ body' = s.body
    /\ kids' = s.kids
    /\ blockBlueOriginal' = s.blockBlueOriginal
    /\ processedAttr' = s.processedAttr
    /\ replacedAttr' = s.replacedAttr
    /\ records' = s.records
    /\ lastOp' = [op |-> IF op \in ObservedOps THEN op ELSE "other",
                   hid |-> s.hid,
                   pre |-> IF op = "rescan" THEN replacedAttr ELSE {},
                   raised |-> s.raised]

\* The variables of the environment and of the suspended calls.
EnvVars == << pathname, activeTab, sync, local, contextValid >>
PcVars == << initPc, listeners, loadsSync, loadsLocal, rescanTimers, intervalOn >>

\* A MutationObserver callback runs before the next task: nothing else runs
\* while records are queued.
Quiet == records = << >>

\* setupMessageListener and setupStorageListener: content.js:699, 727
setupListeners(valid) == valid

\* The listeners of init are registered, and the runtime still delivers to them.
Listening == listeners /\ contextValid

PendingLoads == loadsSync + loadsLocal

InitPage ==
    /\ settings = InitialSettings
    /\ whitelistSet = {}
    /\ followedUsersSet = {}
    /\ followedSaveTimer = 0
    /\ hiddenCount = 0
    /\ observer = FALSE
    /\ saveTimer = FALSE
    /\ onFollowingTab = "null"
    /\ body = << Elem("t1") >>
    /\ kids = PageKids
    /\ blockBlueOriginal = [c \in Containers |-> NoOriginal]
    /\ processedAttr = {}
    /\ replacedAttr = {}
    /\ records = << >>
    /\ pathname = "/home"
    /\ activeTab \in Tabs
    /\ contextValid = TRUE
    /\ initPc = "sync"
    /\ listeners = FALSE
    /\ loadsSync = 0
    /\ loadsLocal = 0
    /\ rescanTimers = 0
    /\ intervalOn = FALSE
    /\ lastOp = [op |-> "other", hid |-> << >>, pre |-> {},
                 raised |-> FALSE]
    /\ unit = [pc |-> "off", kids |-> << >>]
    /\ served = 0

\* What storage.sync holds with configuration c and hiddenCount n.
Stored(c, n) ==
    [enabled |-> c.enabled, hideBlue |-> c.hideBlue,
     hideGold |-> c.hideGold, hideGray |-> c.hideGray,
     whitelist |-> c.whitelist, hiddenCount |-> n]

\* The script is injected in a first session: nothing was persisted.
Init ==
    /\ InitPage
    /\ sync \in { Stored(c, 0) : c \in Configs }
    /\ local = {}

\* init() after its loadSettings(): content.js:751-773
initRest(s) ==
    LET walked == processTreeBody(scanPageForFollowedUsers(s))
    IN  IF ~s.settings.enabled THEN s
        ELSE IF s.contextValid
        THEN startObserver(debouncedSaveHiddenCount(walked))
        ELSE IF walked.raised THEN walked
        ELSE startObserver(debouncedSaveHiddenCount(walked))

\* init: the storage.sync read of its loadSettings() completes.
InitSyncDone ==
    /\ initPc = "sync"
    /\ Quiet
    /\ LET s1 == loadSettingsSync(Cur, sync)
       IN  IF contextValid
           THEN /\ Commit(s1, "initSync")
                /\ initPc' = "local"
                /\ listeners' = listeners
                /\ intervalOn' = intervalOn
           ELSE /\ Commit(initRest(s1), "init")
                /\ initPc' = "done"
                /\ listeners' = setupListeners(contextValid)
                /\ intervalOn' = (s1.settings.enabled
                                 /\ (contextValid \/ ~initRest(s1).raised))
    /\ UNCHANGED << EnvVars, loadsSync, loadsLocal, rescanTimers, unit, served >>

\* init: the storage.local read completes and init runs to its end.
InitLocalDone ==
    /\ initPc = "local"
    /\ Quiet
    /\ LET s1 == loadSettingsLocal(Cur, local)
       IN  /\ Commit(initRest(s1), "init")
           /\ intervalOn' = (s1.settings.enabled
                                 /\ (contextValid \/ ~initRest(s1).raised))
    /\ initPc' = "done"
    /\ listeners' = setupListeners(contextValid)
    /\ UNCHANGED << EnvVars, loadsSync, loadsLocal, rescanTimers, unit, served >>

\* The MutationObserver delivers the queued records: content.js:615-630
MutationsCallback ==
    /\ records # << >>
    /\ Commit(handleMutations([Cur EXCEPT !.records = << >>], records),
              "mutations")
    /\ UNCHANGED << EnvVars, PcVars, unit >>

DeliverMutations == MutationsCallback /\ UNCHANGED served

\* The same step where the callbacks are counted (SpecQuiet).
DeliverMutationsServed == MutationsCallback /\ served' = 1 - served

\* The user clicks the placeholder bar of c: content.js:446-448
ClickPlaceholder(c) ==
    /\ Quiet
    /\ c \in replacedAttr
    /\ IsConnected(Cur, c)
    /\ Commit(restoreElement(Cur, c), "click")
    /\ UNCHANGED << EnvVars, PcVars, unit, served >>

\* The setInterval callback of init: content.js:764-772
IntervalCallback ==
    /\ Quiet
    /\ intervalOn
    /\ IF ~contextValid THEN Commit(Cur, "tick")
       ELSE LET s1 == scanPageForFollowedUsers(Cur)
            IN  IF Cardinality(s1.followedUsersSet) > Cardinality(followedUsersSet)
                THEN Commit(rescanAll(s1), "rescan")
                ELSE Commit(s1, "tick")
    /\ UNCHANGED << EnvVars, PcVars, unit >>

PeriodicTick == IntervalCallback /\ UNCHANGED served

\* The same step where the callbacks are counted (SpecQuiet).
PeriodicTickServed == IntervalCallback /\ served' = 1 - served

\* Mutant: the URL change schedules the rescan but keeps the cached answer.
Navigate_keepCache(p) ==
    /\ Quiet
    /\ p # pathname
    /\ pathname' = p
    /\ IF initPc = "done"
       THEN /\ rescanTimers < MaxRescanTimers
            /\ rescanTimers' = rescanTimers + 1
       ELSE rescanTimers' = rescanTimers
    /\ Commit(Cur, "navigate")
    /\ UNCHANGED << activeTab, sync, local, contextValid, initPc, listeners, loadsSync,
                    loadsLocal, intervalOn, unit, served >>

\* history.pushState / replaceState / popstate with a new href:
\* content.js:666-674.  Before init has patched them the page just moves.
Navigate(p) ==
    /\ Quiet
    /\ p # pathname
    /\ pathname' = p
    /\ IF initPc = "done"
       THEN /\ rescanTimers < MaxRescanTimers
            /\ rescanTimers' = rescanTimers + 1
            /\ Commit([Cur EXCEPT !.onFollowingTab = "null"], "navigate")
       ELSE /\ rescanTimers' = rescanTimers
            /\ Commit(Cur, "navigate")
    /\ UNCHANGED << activeTab, sync, local, contextValid, initPc, listeners, loadsSync,
                    loadsLocal, intervalOn, unit, served >>

\* setTimeout(rescanAll, 500) fires.
RescanTimerFires ==
    /\ Quiet
    /\ rescanTimers > 0
    /\ rescanTimers' = rescanTimers - 1
    /\ Commit(rescanAll(Cur), "rescan")
    /\ UNCHANGED << EnvVars, initPc, listeners, loadsSync, loadsLocal, intervalOn, unit, served >>

\* Mutant: the listener reloads on every change of the sync area.
storageListener_anyKeys(keys, area) == area = "sync"

\* The chrome.storage.onChanged listener of content.js:728-736: TRUE when it
\* goes on to loadSettings().then(rescanAll).
storageListener(keys, area) ==
    IF area # "sync" THEN FALSE
    ELSE IF Cardinality(keys) = 1 /\ "hiddenCount" \in keys THEN FALSE
    ELSE TRUE

\* Object.keys(changes) of a write that turns the stored record old into new.
ChangedKeys(old, new) == { k \in DOMAIN old : old[k] # new[k] }

\* A storage write reaches the listener, if one is registered and a value
\* changed; the listener's loadSettings() stops at its first await.
StorageNotify(keys, area) ==
    IF Listening /\ keys # {} /\ storageListener(keys, area)
    THEN /\ PendingLoads < MaxLoads
         /\ loadsSync' = loadsSync + 1
    ELSE loadsSync' = loadsSync

\* The popup stores a configuration (popup.js:53-62); storage.onChanged
\* reaches the listener of content.js:728-736, which calls loadSettings().
StorageChange(cfg) ==
    /\ Quiet
    /\ cfg # ConfigOf(sync)
    /\ sync' = Stored(cfg, sync.hiddenCount)
    /\ StorageNotify(ChangedKeys(sync, sync'), "sync")
    /\ Commit(Cur, "storageChange")
    /\ UNCHANGED << pathname, activeTab, local, contextValid, initPc, listeners,
                    loadsLocal, rescanTimers, intervalOn, unit, served >>

\* The onMessage listener of content.js:699-716: what it passes to
\* sendResponse, whether it starts loadSettings().then(rescanAll), and the
\* value it returns.
onMessage(s, type) ==
    CASE type = "GET_STATS" ->
            [reply |-> [hiddenCount |-> s.hiddenCount,
                        autoFollowedCount |-> Cardinality(s.followedUsersSet)],
             reload |-> FALSE, handled |-> TRUE]
      [] type = "SETTINGS_CHANGED" ->
            [reply |-> [ok |-> TRUE], reload |-> TRUE, handled |-> TRUE]
      [] OTHER ->
            [reply |-> Null, reload |-> FALSE, handled |-> FALSE]

\* Mutant: SETTINGS_CHANGED rescans at once, without waiting for the reload.
SettingsChanged_rescanNow ==
    /\ Quiet
    /\ Listening
    /\ PendingLoads < MaxLoads
    /\ loadsSync' = loadsSync + 1
    /\ Commit(rescanAll(Cur), "rescan")
    /\ UNCHANGED << EnvVars, initPc, listeners, loadsLocal, rescanTimers, intervalOn, unit, served >>

\* SETTINGS_CHANGED arrives: content.js:709-713
SettingsChanged ==
    /\ Quiet
    /\ Listening
    /\ IF onMessage(Cur, "SETTINGS_CHANGED").reload
       THEN /\ PendingLoads < MaxLoads
            /\ loadsSync' = loadsSync + 1
       ELSE loadsSync' = loadsSync
    /\ Commit(Cur, "settingsChanged")
    /\ UNCHANGED << EnvVars, initPc, listeners, loadsLocal, rescanTimers, intervalOn, unit, served >>

\* A listener's loadSettings(): the storage.sync read completes.  With the
\* runtime gone the call returns and the rescanAll of .then() runs.
LoadSyncDone ==
    /\ Quiet
    /\ loadsSync > 0
    /\ loadsSync' = loadsSync - 1
    /\ LET s1 == loadSettingsSync(Cur, sync)
       IN  IF contextValid
           THEN /\ Commit(s1, "loadSync")
                /\ loadsLocal' = loadsLocal + 1
           ELSE /\ Commit(rescanAll(s1), "rescan")
                /\ loadsLocal' = loadsLocal
    /\ UNCHANGED << EnvVars, initPc, listeners, rescanTimers, intervalOn, unit, served >>

\* A listener's loadSettings(): the storage.local read completes, the call
\* returns and the rescanAll of .then() runs.
LoadLocalDone ==
    /\ Quiet
    /\ loadsLocal > 0
    /\ loadsLocal' = loadsLocal - 1
    /\ Commit(rescanAll(loadSettingsLocal(Cur, local)), "rescan")
    /\ UNCHANGED << EnvVars, initPc, listeners, loadsSync, rescanTimers, intervalOn, unit, served >>

\* The 1 s timer of debouncedSaveHiddenCount fires: content.js:152-155
SaveTimerFires ==
    /\ Quiet
    /\ saveTimer
    /\ sync' = IF contextValid THEN [sync EXCEPT !.hiddenCount = hiddenCount]
               ELSE sync
    /\ StorageNotify(ChangedKeys(sync, sync'), "sync")
    /\ Commit([Cur EXCEPT !.saveTimer = FALSE], "saveHiddenCount")
    /\ UNCHANGED << pathname, activeTab, local, contextValid, initPc, listeners,
                    loadsLocal, rescanTimers, intervalOn, unit, served >>

\* The 2 s timer of debouncedSaveFollowedUsers fires: content.js:253-258
FollowedSaveTimerFires ==
    /\ Quiet
    /\ followedSaveTimer > 0
    /\ local' = IF contextValid THEN followedUsersSet ELSE local
    /\ StorageNotify(IF local' # local THEN {"followedUsers"} ELSE {}, "local")
    /\ Commit([Cur EXCEPT !.followedSaveTimer = @ - 1], "saveFollowedUsers")
    /\ UNCHANGED << pathname, activeTab, sync, contextValid, initPc, listeners,
                    loadsLocal, rescanTimers, intervalOn, unit, served >>

\* The page inserts container c, with what it embeds, under document.body.
PageAdds(c, k) ==
    /\ Quiet
    /\ c \in TopLevel
    /\ Elem(c) \notin Range(body)
    /\ Commit([Cur EXCEPT !.body = Append(@, Elem(c)),
                          !.kids[c] = k,
                          !.records = IF observer THEN << Elem(c) >> ELSE << >>],
              "pageAdds")
    /\ UNCHANGED << EnvVars, PcVars, unit, served >>

\* What the page may render in container c when it inserts it.
PageRenders(c) ==
    IF c = "u2" THEN { << Link("/Bob"), FollowButton >>,
                       << Link("/Bob"), UnfollowButton >> }
    ELSE { PageKids[c] }

\* The user follows Bob: the follow control of u2 becomes an unfollow control
\* (an attribute and character data change, which no childList observer sees).
UserFollows ==
    /\ Quiet
    /\ IsConnected(Cur, "u2")
    /\ kids["u2"] = << Link("/Bob"), FollowButton >>
    /\ Commit([Cur EXCEPT !.kids["u2"] = << Link("/Bob"), UnfollowButton >>],
              "userFollows")
    /\ UNCHANGED << EnvVars, PcVars, unit, served >>

\* The user selects the other timeline tab; the URL stays.
TabSwitch(t) ==
    /\ Quiet
    /\ t # activeTab
    /\ activeTab' = t
    /\ Commit(Cur, "tabSwitch")
    /\ UNCHANGED << pathname, sync, local, contextValid, PcVars, unit, served >>

\* The extension is reloaded or updated: chrome.runtime.id is gone for good.
Invalidate ==
    /\ Quiet
    /\ contextValid
    /\ contextValid' = FALSE
    /\ Commit(Cur, "invalidate")
    /\ UNCHANGED << pathname, activeTab, sync, local, PcVars, unit, served >>

Next ==
    \/ InitSyncDone
    \/ InitLocalDone
    \/ DeliverMutations
    \/ \E c \in Containers : ClickPlaceholder(c)
    \/ PeriodicTick
    \/ \E p \in Pathnames : Navigate(p)
    \/ RescanTimerFires
    \/ \E cfg \in Configs : StorageChange(cfg)
    \/ SettingsChanged
    \/ LoadSyncDone
    \/ LoadLocalDone
    \/ \E c \in TopLevel : \E k \in PageRenders(c) : PageAdds(c, k)
    \/ UserFollows
    \/ \E t \in Tabs : TabSwitch(t)

\* The scan scheduler with the page, the user and the popup: the runtime
\* stays valid and the persist timers stay pending.
Spec == Init /\ [][Next]_vars

\* The scheduler together with the persist timers and the loss of the runtime.
NextAll == Next \/ SaveTimerFires \/ FollowedSaveTimerFires \/ Invalidate

SpecAll == Init /\ [][NextAll]_vars

---------------------------------------------------------------------------
(* The single-container harness: one container t1 whose content, and the   *)
(* settings and caches around it, are drawn from bounded sets; the         *)
(* decision, hide and restore operators are applied to it.                 *)

\* The graphic elements a container of the harness may hold.
SvgKinds ==
    { VerifiedBlue,
      Svg("", "0 0 22 22", 2, TwitterBlue, FALSE),
      Svg("Verified account", "0 0 22 22", 2, TwitterGold, FALSE),
      Svg("Verified account", "0 0 22 22", 2, TwitterGray, FALSE),
      Svg("Verified account", "0 0 22 22", 2, White, FALSE),
      Svg("Verified account", "0 0 22 22", 2, Translucent, FALSE),
      Svg("Verified account", "0 0 22 22", 2, TwitterBlue, TRUE),
      Svg("Like", "0 0 24 24", 1, TwitterBlue, FALSE) }

SvgSeqs == UNION { [1..n -> SvgKinds] : n \in 0..MaxSvgs }

\* The links of the container: none, a profile link, a permalink before a
\* profile link.
LinkSeqs ==
    { << >>, << Link("/alice") >>,
      << Link("/Bob/status/1"), Link("/Bob") >> }

UnitSettings ==
    { [enabled |-> e, hideBlue |-> b, hideGold |-> g, hideGray |-> y,
       whitelist |-> w] :
        e \in BOOLEAN, b \in BOOLEAN, g \in BOOLEAN, y \in BOOLEAN,
        w \in { << >>, << "Alice" >> } }

UnitInit ==
    /\ settings \in UnitSettings
    /\ whitelistSet = { ToLowerCase(u) : u \in Range(settings.whitelist) }
    /\ followedUsersSet \in { {}, {"alice"}, {"bob"} }
    /\ followedSaveTimer = 0
    /\ hiddenCount = 1
    /\ observer = FALSE
    /\ saveTimer = FALSE
    /\ onFollowingTab = "null"
    /\ body \in { << Elem("t1") >>, << >> }
    /\ \E links \in LinkSeqs, svgs \in SvgSeqs :
          kids = [PageKids EXCEPT !["t1"] = links \o svgs]
    /\ blockBlueOriginal = [c \in Containers |-> NoOriginal]
    /\ processedAttr = {}
    /\ replacedAttr = {}
    /\ records = << >>
    /\ pathname = "/home"
    /\ activeTab = "For you"
    /\ sync = DEFAULT_SETTINGS
    /\ local = {}
    /\ contextValid = TRUE
    /\ initPc = "done"
    /\ listeners = TRUE
    /\ loadsSync = 0
    /\ loadsLocal = 0
    /\ rescanTimers = 0
    /\ intervalOn = FALSE
    /\ lastOp = [op |-> "other", hid |-> << >>, pre |-> {},
                 raised |-> FALSE]
    /\ unit = [pc |-> "fresh", kids |-> kids["t1"]]
    /\ served = 0

\* processElement(t1) on the container as drawn.
UnitProcess ==
    /\ unit.pc = "fresh"
    /\ Commit(processElement(Cur, "t1"), "process")
    /\ unit' = [unit EXCEPT !.pc = "processed"]
    /\ UNCHANGED << EnvVars, PcVars, served >>

\* replaceWithPlaceholder(t1, tier) on the container as drawn.
UnitHide(tier) ==
    /\ unit.pc = "fresh"
    /\ Commit(replaceWithPlaceholder(Cur, "t1", tier), "hide")
    /\ unit' = [unit EXCEPT !.pc = "hidden"]
    /\ UNCHANGED << EnvVars, PcVars, served >>

\* restoreElement(t1), as the click on the placeholder calls it.
UnitRestore ==
    /\ unit.pc \in {"processed", "hidden"}
    /\ Commit(restoreElement(Cur, "t1"), "click")
    /\ unit' = [unit EXCEPT !.pc = "restored"]
    /\ UNCHANGED << EnvVars, PcVars, served >>

UnitNext == UnitProcess \/ (\E tier \in Tiers : UnitHide(tier)) \/ UnitRestore

SpecUnit == UnitInit /\ [][UnitNext]_vars

---------------------------------------------------------------------------
(* Properties of the decision, hide and restore operators (SpecUnit).      *)

\* The container of the harness as it was drawn.
UnitLinks == SelectSeqKind(unit.kids, "a")
UnitSvgs == SelectSeqKind(unit.kids, "svg")
UnitIdentity == FirstProfile(UnitLinks)
UnitBadges == SelectSeq(UnitSvgs, isVerifiedBadge)

Exempt(I) == I # Null /\ (I \in whitelistSet \/ I \in followedUsersSet)

ToggleOf(T) ==
    CASE T = BADGE_TYPES.BLUE -> settings.hideBlue
      [] T = BADGE_TYPES.GOLD -> settings.hideGold
      [] T = BADGE_TYPES.GRAY -> settings.hideGray
      [] OTHER -> FALSE

\* C1: a container whose extracted identity is in the allow-list or in
\* FollowCache is never selected by getBlockBadgeType, whatever its badges
\* and the toggles are, and processing it does not replace it.
C1_ExemptIdentityNotSuppressed ==
    Exempt(UnitIdentity) =>
        /\ unit.pc = "fresh" => /\ extractUsername(Cur, "t1") = UnitIdentity
                                /\ getBlockBadgeType(Cur, "t1") = Null
        /\ unit.pc = "processed" => "t1" \notin replacedAttr

\* C1 witness: an exempt author with a badge of a tier that is switched on
\* was processed and is not replaced.
C1_Witness ==
    /\ unit.pc = "processed"
    /\ Exempt(UnitIdentity)
    /\ UnitIdentity \in followedUsersSet
    /\ UnitIdentity \notin whitelistSet
    /\ settings.enabled
    /\ BadgeTypeOf(Cur, "t1") \in Tiers
    /\ ToggleOf(BadgeTypeOf(Cur, "t1"))
    /\ "t1" \notin replacedAttr

\* C2: with settings.enabled = FALSE getBlockBadgeType returns null for
\* every container, and processing replaces nothing.
C2_DisabledNeverSuppresses ==
    ~settings.enabled =>
        /\ unit.pc = "fresh" => getBlockBadgeType(Cur, "t1") = Null
        /\ unit.pc = "processed" => "t1" \notin replacedAttr

\* C2 witness: suppression is off, and a container that every other test
\* would select was processed and left alone.
C2_Witness ==
    /\ unit.pc = "processed"
    /\ ~settings.enabled
    /\ BadgeTypeOf(Cur, "t1") \in Tiers
    /\ ToggleOf(BadgeTypeOf(Cur, "t1"))
    /\ ~Exempt(UnitIdentity)
    /\ "t1" \notin replacedAttr
    /\ kids["t1"] = unit.kids

\* The container has exactly one badge and its resolved colour is in none
\* of the three buckets.
OnlyBadgeUnrecognised ==
    /\ Len(UnitBadges) = 1
    /\ LET color == ComputedColor(Cur, "t1", UnitBadges[1])
       IN  ~(\/ color.fmt = "rgb" /\ color.b > 180 /\ color.r < 80
             \/ color.fmt = "rgb" /\ color.r > 180 /\ color.g > 140 /\ color.b < 80
             \/ color.fmt = "rgb" /\ Abs(color.r - color.g) < 40
                    /\ Abs(color.g - color.b) < 40
                    /\ color.r > 70 /\ color.r < 200)

\* C3: a container whose only badge has an unrecognised colour gets the
\* "no decision" value null, and processing it leaves it as it was.
C3_UnrecognisedColourNotSuppressed ==
    OnlyBadgeUnrecognised =>
        /\ unit.pc = "fresh" => getBlockBadgeType(Cur, "t1") = Null
        /\ unit.pc = "processed" => /\ "t1" \notin replacedAttr
                                    /\ kids["t1"] = unit.kids
                                    /\ hiddenCount = 1

\* C3 witness: a connected container with one white badge, every toggle on
\* and no exemption, was processed and is not replaced.
C3_Witness ==
    /\ unit.pc = "processed"
    /\ OnlyBadgeUnrecognised
    /\ IsConnected(Cur, "t1")
    /\ UnitBadges[1].color = White
    /\ settings.enabled /\ settings.hideBlue /\ settings.hideGold /\ settings.hideGray
    /\ ~Exempt(UnitIdentity)
    /\ "t1" \notin replacedAttr

\* C4: for a container not yet processed whose badge classifies as tier T,
\* with suppression enabled, getBlockBadgeType returns T exactly when the
\* toggle of T is on and the identity is absent or in neither list, and null
\* otherwise; when it returns T, processElement hides the container once and
\* adds one to hiddenCount; when the toggle is off the container, the
\* markers of hiding and the count stay as they are.
C4_TierToggleDecides ==
    [][ ( /\ unit.pc = "fresh" /\ unit'.pc = "processed"
          /\ settings.enabled
          /\ BadgeTypeOf(Cur, "t1") \in Tiers )
        => LET T == BadgeTypeOf(Cur, "t1")
               I == extractUsername(Cur, "t1")
               decided == getBlockBadgeType(Cur, "t1")
           IN  /\ decided \in {T, Null}
               /\ decided = T <=> (ToggleOf(T) /\ ~Exempt(I))
               /\ decided = T =>
                     /\ "t1" \in replacedAttr'
                     /\ hiddenCount' = hiddenCount + 1
                     /\ lastOp'.hid = << [el |-> "t1", wasReplaced |-> FALSE] >>
               /\ ~ToggleOf(T) =>
                     /\ decided = Null
                     /\ kids' = kids
                     /\ replacedAttr' = replacedAttr
                     /\ blockBlueOriginal' = blockBlueOriginal
                     /\ hiddenCount' = hiddenCount
                     /\ lastOp'.hid = << >> ]_vars

\* C4 witness: a container without a profile link and with a gold badge,
\* gold switched on, was hidden once and counted once.
C4_Witness ==
    /\ unit.pc = "processed"
    /\ UnitIdentity = Null
    /\ settings.enabled /\ settings.hideGold /\ ~settings.hideBlue
    /\ "t1" \in replacedAttr
    /\ kids["t1"] = << Bar("t1", BADGE_TYPES.GOLD) >>
    /\ hiddenCount = 2
    /\ lastOp.hid = << [el |-> "t1", wasReplaced |-> FALSE] >>

\* C5: replaceWithPlaceholder followed by restoreElement leaves the child
\* sequence of the container as it was before the hide (same nodes, same
\* order), without the replaced marker, the holder or the placeholder.
C5_HideRestoreRoundTrip ==
    /\ (unit.pc \in {"processed", "hidden"} /\ "t1" \in replacedAttr) =>
          /\ blockBlueOriginal["t1"] = [has |-> TRUE, nodes |-> unit.kids]
          /\ Len(kids["t1"]) = 1 /\ kids["t1"][1].kind = "bar"
    /\ unit.pc = "restored" =>
          /\ kids["t1"] = unit.kids
          /\ "t1" \notin replacedAttr
          /\ blockBlueOriginal["t1"] = NoOriginal

\* C5 witness: a container of several children was hidden by
\* replaceWithPlaceholder and then restored.
C5_Witness ==
    /\ unit.pc = "restored"
    /\ "t1" \notin processedAttr
    /\ Len(unit.kids) >= 3
    /\ kids["t1"] = unit.kids

---------------------------------------------------------------------------
(* Properties of the scan scheduler (Spec).                                *)

\* The author of container c: the first profile link of its content, be it
\* attached or held in the fragment.
AuthorOf(s, c) ==
    FirstProfile(SelectSeqKind(
        Descendants(s.kids, IF s.blockBlueOriginal[c].has
                            THEN s.blockBlueOriginal[c].nodes
                            ELSE s.kids[c]), "a"))

\* The containers nested in container c, held content included.
NestedIn(c) ==
    { d \in Containers :
        Elem(d) \in Range(kids[c]) \cup Range(blockBlueOriginal[c].nodes) }

\* C6: a mutation batch leaves every container that carries the processed
\* marker as it is (markers, children, held content), so a container the
\* user revealed is not hidden again by an incremental scan; and no handler
\* ever applies replaceWithPlaceholder to an element that is replaced.
C6_ProcessedNotRevisited ==
    [][ /\ records # << >> =>
            /\ \A c \in processedAttr :
                  /\ c \in processedAttr'
                  /\ (c \in replacedAttr') = (c \in replacedAttr)
                  /\ kids'[c] = kids[c]
                  /\ blockBlueOriginal'[c] = blockBlueOriginal[c]
            /\ \A i \in DOMAIN lastOp'.hid : lastOp'.hid[i].el \notin processedAttr
        /\ \A i \in DOMAIN lastOp'.hid : ~lastOp'.hid[i].wasReplaced ]_vars

\* C6 witness: a mutation batch was handled while a connected container
\* that getBlockBadgeType would select is processed and shown (revealed by
\* a click), nested in the content the click put back.
C6_Witness ==
    /\ lastOp.op = "mutations"
    /\ \E c \in Containers, p \in Containers :
          /\ Elem(c) \in Range(kids[p])
          /\ p \in processedAttr /\ p \notin replacedAttr
          /\ c \in processedAttr /\ c \notin replacedAttr
          /\ IsConnected(Cur, c)
          /\ getBlockBadgeType(Cur, c) # Null
          /\ getBlockBadgeType(Cur, p) # Null

\* C7: every element with the replaced marker has the processed marker.
C7_ReplacedImpliesProcessed == replacedAttr \subseteq processedAttr

\* C7 witness: a full rescan began with an outer container replaced (its
\* nested container detached in the fragment), and left the outer one
\* replaced again with the nested one processed inside the fragment.
C7_Witness ==
    /\ lastOp.op = "rescan"
    /\ \E outer \in lastOp.pre \cap replacedAttr :
          \E inner \in NestedIn(outer) :
              inner \in processedAttr /\ inner \notin replacedAttr

\* C10: whatever state a full rescan starts from, when its walk begins every
\* element that was replaced has been restored and no connected element
\* carries a marker or holds content; and the walk of a full rescan never
\* hides an element that is still replaced.
C10_RestoredAndClearedBeforeWalk ==
    LET m == rescanPrepare(Cur)
    IN  /\ \A c \in replacedAttr :
              /\ c \notin m.replacedAttr
              /\ m.blockBlueOriginal[c] = NoOriginal
              /\ m.kids[c] = blockBlueOriginal[c].nodes
        /\ \A c \in Containers :
              IsConnected(m, c) => /\ c \notin m.processedAttr
                                   /\ c \notin m.replacedAttr
                                   /\ ~m.blockBlueOriginal[c].has
        /\ lastOp.op = "rescan" =>
              \A i \in DOMAIN lastOp.hid : ~lastOp.hid[i].wasReplaced

\* C10 witness: a full rescan found elements replaced, restored them and
\* its walk hid again.
C10_Witness ==
    /\ lastOp.op = "rescan"
    /\ Cardinality(lastOp.pre) >= 2
    /\ lastOp.hid # << >>
    /\ \E i \in DOMAIN lastOp.hid : lastOp.hid[i].el \in lastOp.pre

\* The connected post containers of the document.
Posts(s) == { c \in Containers : TestId(c) = "tweet" /\ IsConnected(s, c) }

\* After the refresh s1, identity I is cached and no container of s1 whose
\* identity is I is selected for hiding.
KnownAndShown(s1, I) ==
    /\ I \in s1.followedUsersSet
    /\ \A d \in Containers :
          extractUsername(s1, d) = I => getBlockBadgeType(s1, d) = Null

\* C8 as stated: whenever the periodic refresh can run while the selected
\* timeline tab of the home timeline is "Following", the refresh caches the
\* author of every post container of the document, replaced or not.
C8_Original ==
    (Quiet /\ intervalOn /\ contextValid /\ FollowingTabQuery(Cur)) =>
        LET s1 == scanPageForFollowedUsers(Cur)
        IN  \A c \in Posts(Cur) :
                AuthorOf(Cur, c) # Null => KnownAndShown(s1, AuthorOf(Cur, c))

\* C8 amended: whenever isOnFollowingTab() answers true (from its cache, or
\* from the tab query when nothing is cached) and a post container of the
\* document has an extractable author I (its content is attached), then
\* after scanPageForFollowedUsers I is cached and getBlockBadgeType selects
\* no container with identity I; this for the refresh of a tick or a
\* mutation batch and for the refresh of a rescan, which first drops the
\* cached answer.
C8_FollowingTabRefresh ==
    \A s \in {Cur, [Cur EXCEPT !.onFollowingTab = "null"]} :
        isOnFollowingTab(s) =>
            LET s1 == scanPageForFollowedUsers(s)
            IN  \A c \in Posts(s) :
                    extractUsername(s, c) # Null =>
                        KnownAndShown(s1, extractUsername(s, c))

\* C8 witness: a mutation batch added a blue-badged post while the
\* "Following" answer was cached; its author was cached by the refresh and
\* the post, which the settings select for hiding, is shown.
C8_Witness ==
    /\ lastOp.op = "mutations"
    /\ onFollowingTab = "true"
    /\ settings.enabled /\ settings.hideBlue
    /\ \E c \in Posts(Cur) :
          /\ c \notin replacedAttr /\ c \in processedAttr
          /\ BadgeTypeOf(Cur, c) = "blue"
          /\ extractUsername(Cur, c) \in followedUsersSet
          /\ extractUsername(Cur, c) \notin whitelistSet

---------------------------------------------------------------------------
(* The scheduler on a quiet page: no navigation, no settings change.  The  *)
(* interval timer and the observer callbacks are served fairly.            *)

NextQuiet ==
    \/ InitSyncDone
    \/ InitLocalDone
    \/ DeliverMutationsServed
    \/ \E c \in Containers : ClickPlaceholder(c)
    \/ PeriodicTickServed
    \/ \E c \in TopLevel : \E k \in PageRenders(c) : PageAdds(c, k)
    \/ UserFollows
    \/ \E t \in Tabs : TabSwitch(t)

\* The interval callback is due: the guard of PeriodicTickServed, the only
\* step of NextQuiet from an empty record queue that changes served.
IntervalDue == Quiet /\ intervalOn /\ served' = 1 - served

\* The observer callback is due: the guard of DeliverMutationsServed, the
\* only step of NextQuiet from a queue that holds records.
ObserverDue == records # << >> /\ served' = 1 - served

\* Weak fairness of the two callbacks.
FairQuiet == WF_served(IntervalDue) /\ WF_served(ObserverDue)

SpecQuiet == Init /\ [][NextQuiet]_vars /\ FairQuiet

\* C9 as stated: a replaced container whose author is in followedUsersSet
\* is eventually not replaced, with the interval timer firing fairly and
\* neither navigation nor settings change, whichever refresh cached the
\* author.
C9_Original ==
    \A c \in Containers :
        (c \in replacedAttr /\ AuthorOf(Cur, c) \in followedUsersSet)
            ~> (c \notin replacedAttr)

---------------------------------------------------------------------------
(* The scheduler under navigation only: URL changes, their settle timers,  *)
(* the page and the user.  The observer callback and the settle timer are  *)
(* served fairly.                                                          *)

NextNav ==
    \/ InitSyncDone
    \/ InitLocalDone
    \/ DeliverMutationsServed
    \/ \E c \in Containers : ClickPlaceholder(c)
    \/ \E p \in Pathnames : Navigate(p)
    \/ RescanTimerFires
    \/ \E c \in TopLevel : \E k \in PageRenders(c) : PageAdds(c, k)
    \/ UserFollows
    \/ \E t \in Tabs : TabSwitch(t)

\* A settle timer is due: the guard of RescanTimerFires, the only step that
\* takes a timer away.
RescanDue == Quiet /\ rescanTimers > 0 /\ rescanTimers' = rescanTimers - 1

FairNav == WF_served(ObserverDue) /\ WF_rescanTimers(RescanDue)

SpecNav == Init /\ [][NextNav]_vars /\ FairNav

\* C11: a URL change seen by onUrlChange drops the cached following-tab
\* answer and adds one settle timer, and is itself no rescan (markers, held
\* content and hiddenCount stay); a timer goes away only by running
\* rescanAll; and a pending timer leads to a full rescan.
C11_UrlChangeSchedulesRescan ==
    /\ [][ (initPc = "done" /\ pathname' # pathname) =>
              /\ onFollowingTab' = "null"
              /\ rescanTimers' = rescanTimers + 1
              /\ lastOp'.op # "rescan"
              /\ processedAttr' = processedAttr
              /\ replacedAttr' = replacedAttr
              /\ blockBlueOriginal' = blockBlueOriginal
              /\ hiddenCount' = hiddenCount ]_vars
    /\ [][ rescanTimers' < rescanTimers =>
              /\ rescanTimers' = rescanTimers - 1
              /\ pathname' = pathname
              /\ lastOp'.op = "rescan"
              /\ replacedAttr' = rescanAll(Cur).replacedAttr
              /\ processedAttr' = rescanAll(Cur).processedAttr ]_vars
    /\ (rescanTimers > 0) ~> (lastOp.op = "rescan")

\* C11 witness: the settle timer of a URL change has fired; the rescan ran
\* on the new path, found elements replaced and filled the cache again.
C11_Witness ==
    /\ lastOp.op = "rescan"
    /\ pathname # "/home"
    /\ rescanTimers = 0
    /\ lastOp.pre # {}
    /\ onFollowingTab # "null"

---------------------------------------------------------------------------
(* The scheduler with the two stores: the persist timers fire, the popup   *)
(* writes configurations, the runtime can go away.  The page stays on its  *)
(* URL and tab.                                                            *)

\* The script is injected in a later session: an earlier one may have
\* persisted a count and a followed user.
InitStore ==
    /\ InitPage
    /\ sync \in { Stored(c, n) : c \in Configs, n \in {0, MaxStoredCount} }
    /\ local \in { {}, {"bob"} }

NextStore ==
    \/ InitSyncDone
    \/ InitLocalDone
    \/ DeliverMutations
    \/ PeriodicTick
    \/ \E cfg \in Configs : StorageChange(cfg)
    \/ SettingsChanged
    \/ LoadSyncDone
    \/ LoadLocalDone
    \/ SaveTimerFires
    \/ FollowedSaveTimerFires
    \/ Invalidate
    \/ \E c \in TopLevel : \E k \in PageRenders(c) : PageAdds(c, k)
    \/ UserFollows

SpecStore == InitStore /\ [][NextStore]_vars

\* C12: no step removes an entry of followedUsersSet.
C12_FollowCacheGrows ==
    [][ followedUsersSet \subseteq followedUsersSet' ]_vars

\* C12 witness: the cache holds the user persisted by an earlier session,
\* merged at startup, and one the refresh found, after a configuration
\* reload merged the persisted set again and the rescan ran.
C12_Witness ==
    /\ lastOp.op = "rescan"
    /\ local = {"bob"}
    /\ followedUsersSet = {"alice", "bob"}

\* C13 as stated: once init has run, a step that is no full rescan changes
\* hiddenCount only by +1 for each element it hides, and a full rescan
\* leaves it at the number of elements its walk hid (0 before the walk).
C13_Original ==
    [][ initPc = "done" =>
            IF lastOp'.op = "rescan"
            THEN hiddenCount' = Len(lastOp'.hid)
            ELSE hiddenCount' = hiddenCount + Len(lastOp'.hid) ]_vars

\* The state of the content script that a handler can change.
CoreVars ==
    << settings, whitelistSet, followedUsersSet, hiddenCount, observer,
       onFollowingTab, body, kids, blockBlueOriginal, processedAttr,
       replacedAttr, records >>

\* No reload starts, no reload or rescan runs, the core stays as it is.
NoReaction ==
    /\ UNCHANGED << CoreVars, loadsSync, loadsLocal, rescanTimers >>
    /\ lastOp'.op # "rescan"

\* C14: a write that changes only hiddenCount in storage.sync, or anything
\* in storage.local, starts no loadSettings and no rescan and leaves the
\* core as it is; with the listener registered, any other change of
\* storage.sync starts one loadSettings, which takes the stored
\* configuration and ends in rescanAll.
C14_StorageNotifications ==
    /\ [][ /\ ChangedKeys(sync, sync') = {"hiddenCount"} => NoReaction
           /\ local' # local => NoReaction
           /\ (Listening /\ ChangedKeys(sync, sync') \ {"hiddenCount"} # {}) =>
                 /\ loadsSync' = loadsSync + 1
                 /\ UNCHANGED << CoreVars, loadsLocal, rescanTimers >> ]_vars
    /\ [][ loadsSync' < loadsSync =>
              /\ settings' = ConfigOf(sync)
              /\ loadsLocal' = loadsLocal + 1 \/ lastOp'.op = "rescan" ]_vars
    /\ [][ loadsLocal' < loadsLocal => lastOp'.op = "rescan" ]_vars

\* C14 witness: the script's own debounced write has put its count, which
\* no earlier session stored, into storage.sync, with the listener
\* registered; no reload is pending.
C14_Witness ==
    /\ Listening
    /\ sync.hiddenCount = 1
    /\ hiddenCount = 1
    /\ ~saveTimer
    /\ PendingLoads = 0
    /\ lastOp.op = "other"

\* The containers directly under document.body.
TopContainers(s) == { c \in Containers : Elem(c) \in Range(s.body) }

\* C15: SETTINGS_CHANGED is answered with {ok: true} and its step changes
\* nothing but the pending reload; settings and whitelistSet change only
\* when a storage.sync read completes, to what storage.sync holds then; the
\* rescan of a reload runs when its storage.local read completes, keeps
\* those settings, and replaces a container of document.body exactly when
\* getBlockBadgeType selects it under them (a rescan that an exception ends
\* replaces only containers so selected).
C15_ReloadThenRescan ==
    /\ [](onMessage(Cur, "SETTINGS_CHANGED").reply = [ok |-> TRUE])
    /\ [][ (loadsSync' > loadsSync /\ sync' = sync) =>
              /\ UNCHANGED << CoreVars, loadsLocal, rescanTimers >>
              /\ lastOp'.op # "rescan" ]_vars
    /\ [][ (settings' # settings \/ whitelistSet' # whitelistSet) =>
              /\ loadsSync' < loadsSync \/ initPc = "sync"
              /\ settings' = ConfigOf(sync)
              /\ whitelistSet' = { ToLowerCase(u) : u \in Range(sync.whitelist) } ]_vars
    /\ [][ (loadsSync' < loadsSync /\ contextValid) =>
              /\ lastOp'.op # "rescan"
              /\ loadsLocal' = loadsLocal + 1
              /\ replacedAttr' = replacedAttr ]_vars
    /\ [][ loadsLocal' < loadsLocal =>
              LET m == rescanPrepare(loadSettingsLocal(Cur, local))
              IN  /\ lastOp'.op = "rescan"
                  /\ settings' = settings
                  /\ whitelistSet' = whitelistSet
                  /\ \A c \in TopContainers(m) :
                        /\ c \in replacedAttr' =>
                              (settings.enabled /\ getBlockBadgeType(m, c) # Null)
                        /\ (~lastOp'.raised /\ settings.enabled
                                /\ getBlockBadgeType(m, c) # Null) =>
                              c \in replacedAttr' ]_vars

\* C15 witness: a reload took a configuration that differs from the one
\* the script started with, and its rescan ran: the post it had replaced is
\* shown under the new allow-list.
C15_Witness ==
    /\ lastOp.op = "rescan"
    /\ "t1" \in lastOp.pre
    /\ "t1" \notin replacedAttr
    /\ "t1" \in processedAttr
    /\ settings.enabled
    /\ whitelistSet = {"alice"}
    /\ PendingLoads = 0

\* The connected containers.
Connected(s) == { c \in Containers : IsConnected(s, c) }

\* C16: right after a full rescan that ran with settings.enabled false, no
\* connected container is replaced or processed, hiddenCount is 0 and no
\* observer is connected; and while no observer is connected (from such a
\* rescan, or from a disabled init, on) only a full rescan that runs with
\* settings.enabled true replaces a container.
C16_DisabledRescanTearsDown ==
    /\ []( (lastOp.op = "rescan" /\ ~settings.enabled) =>
              /\ Connected(Cur) \cap (replacedAttr \cup processedAttr) = {}
              /\ \A c \in Connected(Cur) : ~blockBlueOriginal[c].has
              /\ hiddenCount = 0
              /\ ~observer
              /\ records = << >> )
    /\ [][ (initPc = "done" /\ ~observer
             /\ ~(lastOp'.op = "rescan" /\ settings'.enabled)) =>
              /\ replacedAttr' \subseteq replacedAttr
              /\ lastOp'.hid = << >> ]_vars

\* C16 witness: a rescan with suppression disabled has just restored what
\* was replaced, while the page holds a post that the stored toggles would
\* select.
C16_Witness ==
    /\ lastOp.op = "rescan"
    /\ ~settings.enabled
    /\ lastOp.pre # {}
    /\ ~observer
    /\ \E c \in Connected(Cur) :
          getBlockBadgeType([Cur EXCEPT !.settings.enabled = TRUE], c) # Null

---------------------------------------------------------------------------
(* The follow-state tracker with its persist timer: no configuration       *)
(* change, no navigation, no other writer of storage.local.  The observer, *)
(* the interval and the persist timer are served fairly.                   *)

NextPersist ==
    \/ InitSyncDone
    \/ InitLocalDone
    \/ DeliverMutationsServed
    \/ PeriodicTickServed
    \/ FollowedSaveTimerFires
    \/ Invalidate
    \/ \E c \in TopLevel : \E k \in PageRenders(c) : PageAdds(c, k)
    \/ UserFollows

\* The 2 s persist timer is due: the guard of FollowedSaveTimerFires, the
\* only step that takes a pending timer away without setting a new one.
FollowedSaveDue ==
    /\ Quiet
    /\ followedSaveTimer > 0
    /\ followedSaveTimer' = followedSaveTimer - 1

FairPersist ==
    /\ WF_served(ObserverDue)
    /\ WF_served(IntervalDue)
    /\ WF_followedSaveTimer(FollowedSaveDue)

SpecPersist == InitStore /\ [][NextPersist]_vars /\ FairPersist

\* C17: at most one 2 s timer is pending; a step that adds to
\* followedUsersSet a name that storage did not supply leaves a timer
\* pending; storage.local changes only when the pending timer fires with
\* the runtime valid, to the whole followedUsersSet of that moment, and the
\* timer is gone afterwards; and from some point on, unless the runtime is
\* gone, every name of followedUsersSet is in storage.local.
C17_FollowCachePersist ==
    /\ [](followedSaveTimer <= 1)
    /\ [][ followedUsersSet' \ (followedUsersSet \cup local) # {} =>
              followedSaveTimer' = 1 ]_vars
    /\ [][ followedSaveTimer' < followedSaveTimer =>
              /\ followedSaveTimer' = 0
              /\ followedUsersSet' = followedUsersSet
              /\ local' = IF contextValid THEN followedUsersSet ELSE local ]_vars
    /\ [][ local' # local =>
              /\ contextValid
              /\ followedSaveTimer' < followedSaveTimer
              /\ local' = followedUsersSet ]_vars
    /\ <>[](~contextValid \/ followedUsersSet \subseteq local)

\* C17 witness: one write has put a cache of two names, neither of them
\* persisted before, into storage.local, and no timer is pending.
C17_Witness ==
    /\ contextValid
    /\ followedSaveTimer = 0
    /\ local = {"alice", "bob"}
    /\ local = followedUsersSet
    /\ sync.hiddenCount = 0

---------------------------------------------------------------------------
(* The loss of the runtime.  An event that was on its way when the runtime *)
(* went may still reach a listener that init had registered.               *)

\* A listener runs loadSettings().then(rescanAll) with the runtime gone:
\* loadSettings returns at content.js:127 and the rescanAll of .then()
\* (content.js:710, 735) runs on what it left.
OrphanedReload ==
    /\ Quiet
    /\ listeners
    /\ ~contextValid
    /\ Commit(rescanAll(Cur), "rescan")
    /\ UNCHANGED << EnvVars, PcVars, unit, served >>

NextOrphan ==
    \/ InitSyncDone
    \/ InitLocalDone
    \/ DeliverMutations
    \/ PeriodicTick
    \/ SettingsChanged
    \/ OrphanedReload
    \/ LoadSyncDone
    \/ LoadLocalDone
    \/ SaveTimerFires
    \/ FollowedSaveTimerFires
    \/ Invalidate
    \/ \E c \in TopLevel : \E k \in PageRenders(c) : PageAdds(c, k)
    \/ UserFollows

SpecOrphan == InitStore /\ [][NextOrphan]_vars

\* What a step may change of the page: the containers, their content and
\* their markers.
DomVars ==
    << body, kids, blockBlueOriginal, processedAttr, replacedAttr >>

\* C18 as stated: in a step taken with the runtime invalid, neither store
\* changes, no storage read is started, no listener is registered and no
\* handler is ended by an exception; a loadSettings started then leaves
\* settings, whitelistSet, hiddenCount and followedUsersSet as they were
\* (the step is the rescanAll that follows it, applied to the unchanged
\* state); a persist timer that fires goes away and writes nothing; a
\* batch of mutation records is taken from the queue and changes no
\* container, marker, count or cache; and a storage.sync read that
\* completes, in a listener's reload or in init, is not followed by the
\* storage.local read.
C18_Original ==
    /\ [][ ~contextValid =>
              /\ sync' = sync /\ local' = local
              /\ loadsSync' <= loadsSync /\ loadsLocal' <= loadsLocal
              /\ listeners' = listeners
              /\ ~lastOp'.raised ]_vars
    /\ [][ (~contextValid /\ lastOp'.op = "rescan"
             /\ loadsSync' = loadsSync /\ loadsLocal' = loadsLocal) =>
              /\ settings' = settings
              /\ whitelistSet' = whitelistSet
              /\ hiddenCount' = rescanAll(Cur).hiddenCount
              /\ followedUsersSet' = rescanAll(Cur).followedUsersSet
              /\ replacedAttr' = rescanAll(Cur).replacedAttr ]_vars
    /\ [][ (~contextValid /\ records # << >>) =>
              /\ records' = << >>
              /\ DomVars' = DomVars
              /\ hiddenCount' = hiddenCount
              /\ followedUsersSet' = followedUsersSet
              /\ saveTimer' = saveTimer
              /\ followedSaveTimer' = followedSaveTimer ]_vars
    /\ [][ (~contextValid /\ loadsSync' < loadsSync) =>
              /\ loadsLocal' = loadsLocal
              /\ followedUsersSet' \subseteq rescanAll(Cur).followedUsersSet ]_vars
    /\ [][ (~contextValid /\ initPc = "sync" /\ initPc' # "sync") =>
              initPc' = "done" /\ ~listeners' ]_vars

---------------------------------------------------------------------------
(* The colour harness: one badge whose resolved colour is drawn from       *)
(* channel values around every threshold of getBadgeColorType.             *)

\* Channel values: the ends of the range, each threshold with its two
\* neighbours, values 39, 40 and 41 apart, and the channels of the three
\* colours the site uses.
Channels ==
    { 0, 29, 39, 40, 41, 69, 70, 71, 79, 80, 81, 100, 110, 130, 139, 140,
      141, 154, 155, 171, 175, 178, 179, 180, 181, 199, 200, 201, 229, 240,
      255 }

\* What getComputedStyle(svg).color may be: rgb(r, g, b), an rgba(...)
\* string, or nothing.
Colours ==
    { Rgb(r, g, b) : r \in Channels, g \in Channels, b \in Channels }
        \cup { Translucent, NoStyle }

ColourInit ==
    /\ settings = InitialSettings
    /\ whitelistSet = {}
    /\ followedUsersSet = {}
    /\ followedSaveTimer = 0
    /\ hiddenCount = 0
    /\ observer = FALSE
    /\ saveTimer = FALSE
    /\ onFollowingTab = "null"
    /\ body = << Elem("t1") >>
    /\ \E color \in Colours :
          kids = [PageKids EXCEPT !["t1"] =
                     << Link("/alice"),
                        Svg("Verified account", "0 0 22 22", 2, color, FALSE) >>]
    /\ blockBlueOriginal = [c \in Containers |-> NoOriginal]
    /\ processedAttr = {}
    /\ replacedAttr = {}
    /\ records = << >>
    /\ pathname = "/home"
    /\ activeTab = "For you"
    /\ sync = DEFAULT_SETTINGS
    /\ local = {}
    /\ contextValid = TRUE
    /\ initPc = "done"
    /\ listeners = TRUE
    /\ loadsSync = 0
    /\ loadsLocal = 0
    /\ rescanTimers = 0
    /\ intervalOn = FALSE
    /\ lastOp = [op |-> "other", hid |-> << >>, pre |-> {},
                 raised |-> FALSE]
    /\ unit = [pc |-> "fresh", kids |-> kids["t1"], tier |-> Null]
    /\ served = 0

\* getBadgeColorType(svg) on the badge as drawn.
ColourClassify ==
    /\ unit.pc = "fresh"
    /\ unit' = [unit EXCEPT !.pc = "classified",
                            !.tier = getBadgeColorType(kids["t1"][2].color)]
    /\ Commit(Cur, "classify")
    /\ UNCHANGED << EnvVars, PcVars, served >>

SpecColour == ColourInit /\ [][ColourClassify]_vars

\* The colour of the badge of the harness, and the three buckets as
\* getBadgeColorType tests them.
UnitColour == unit.kids[2].color
BlueBucket(c) == c.b > 180 /\ c.r < 80
GoldBucket(c) == c.r > 180 /\ c.g > 140 /\ c.b < 80
GrayBucket(c) ==
    Abs(c.r - c.g) < 40 /\ Abs(c.g - c.b) < 40 /\ c.r > 70 /\ c.r < 200

\* The Gray bucket as the claim words it: all three pairs of channels less
\* than 40 apart, red from 70 to 200 inclusive.
GrayBucketPairwise(c) ==
    /\ Abs(c.r - c.g) < 40 /\ Abs(c.g - c.b) < 40 /\ Abs(c.r - c.b) < 40
    /\ c.r >= 70 /\ c.r <= 200

\* The result for colour c when the buckets blue, gold, gray are tested in
\* the order given by the permutation order of 1..3.
InOrder(order, blue, gold, gray) ==
    LET hit(i) == CASE order[i] = 1 -> blue
                    [] order[i] = 2 -> gold
                    [] order[i] = 3 -> gray
        name(i) == CASE order[i] = 1 -> BADGE_TYPES.BLUE
                     [] order[i] = 2 -> BADGE_TYPES.GOLD
                     [] order[i] = 3 -> BADGE_TYPES.GRAY
    IN  IF hit(1) THEN name(1)
        ELSE IF hit(2) THEN name(2)
        ELSE IF hit(3) THEN name(3)
        ELSE Null

Orders == { f \in [1..3 -> 1..3] : \A i, j \in 1..3 : f[i] = f[j] => i = j }

\* C19 as stated: for every rgb colour the result is Blue iff b > 180 and
\* r < 80, otherwise Gold iff r > 180, g > 140 and b < 80, otherwise Gray
\* iff the three channels are pairwise less than 40 apart and
\* 70 <= r <= 200, otherwise none; and the buckets are pairwise disjoint.
C19_Original ==
    (unit.pc = "classified" /\ UnitColour.fmt = "rgb") =>
        LET c == UnitColour
        IN  /\ unit.tier = InOrder(<< 1, 2, 3 >>, BlueBucket(c), GoldBucket(c),
                                   GrayBucketPairwise(c))
            /\ ~(BlueBucket(c) /\ GoldBucket(c))
            /\ ~(BlueBucket(c) /\ GrayBucketPairwise(c))
            /\ ~(GoldBucket(c) /\ GrayBucketPairwise(c))

\* C19: for every rgb colour the result is Blue iff b > 180 and r < 80,
\* otherwise Gold iff r > 180, g > 140 and b < 80, otherwise Gray iff
\* |r-g| < 40, |g-b| < 40 and 70 < r < 200 (red and blue are not compared,
\* and both ends of the red range are excluded), otherwise none; the three
\* buckets are pairwise disjoint, and testing them in any of the six
\* orders gives the same result.
C19_ColourBuckets ==
    (unit.pc = "classified" /\ UnitColour.fmt = "rgb") =>
        LET c == UnitColour
        IN  /\ unit.tier = BADGE_TYPES.BLUE <=> BlueBucket(c)
            /\ unit.tier = BADGE_TYPES.GOLD <=> GoldBucket(c)
            /\ unit.tier = BADGE_TYPES.GRAY <=> GrayBucket(c)
            /\ unit.tier = Null <=>
                  ~(BlueBucket(c) \/ GoldBucket(c) \/ GrayBucket(c))
            /\ ~(BlueBucket(c) /\ GoldBucket(c))
            /\ ~(BlueBucket(c) /\ GrayBucket(c))
            /\ ~(GoldBucket(c) /\ GrayBucket(c))
            /\ \A order \in Orders :
                  unit.tier = InOrder(order, BlueBucket(c), GoldBucket(c),
                                      GrayBucket(c))

\* C19 witness: the gray the site uses, whose red and blue channels are 41
\* apart, was classified as Gray.
C19_Witness ==
    /\ unit.pc = "classified"
    /\ UnitColour = TwitterGray
    /\ unit.tier = BADGE_TYPES.GRAY

---------------------------------------------------------------------------
(* Which badge of a container decides (SpecUnit).                          *)

\* A graphic element the loop of getBlockBadgeType does not skip.
UnitQualifies(svg) == isVerifiedBadge(svg) /\ ~svg.inStatusLink

UnitTierOf(svg) == getBadgeColorType(ComputedColor(Cur, "t1", svg))

UnitRecognised(svg) == UnitQualifies(svg) /\ UnitTierOf(svg) # Null

UnitQualifying == SelectSeq(UnitSvgs, UnitQualifies)

UnitAllRecognised == SelectSeq(UnitSvgs, UnitRecognised)

\* C20 as stated: the tier of the first qualifying graphic element, or
\* none if its colour is unrecognised, is the outcome of classification;
\* so a container whose first qualifying badge has an unrecognised colour
\* is never replaced.
C20_Original ==
    UnitQualifying # << >> =>
        /\ unit.pc = "fresh" =>
              BadgeTypeOf(Cur, "t1") = UnitTierOf(UnitQualifying[1])
        /\ (unit.pc = "processed" /\ UnitTierOf(UnitQualifying[1]) = Null) =>
              "t1" \notin replacedAttr

\* C20: the outcome of classification is the tier of the first qualifying
\* graphic element, in document order, whose colour is recognised, and none
\* if there is no such element; a qualifying badge of unrecognised colour
\* is passed over, and no badge after the first recognised one has any
\* influence.  A container that processing replaced carries the bar of
\* that tier.
C20_FirstRecognisedBadge ==
    /\ unit.pc = "fresh" =>
          BadgeTypeOf(Cur, "t1") =
              IF UnitAllRecognised = << >> THEN Null
              ELSE UnitTierOf(UnitAllRecognised[1])
    /\ (unit.pc = "processed" /\ "t1" \in replacedAttr) =>
          /\ UnitAllRecognised # << >>
          /\ kids["t1"] = << Bar("t1", UnitTierOf(UnitAllRecognised[1])) >>

\* C20 witness: a container whose first qualifying badge is white and whose
\* second is blue was processed and replaced under the Blue tier.
C20_Witness ==
    /\ unit.pc = "processed"
    /\ Len(UnitQualifying) = 2
    /\ UnitQualifying[1].color = White
    /\ UnitQualifying[2].color = TwitterBlue
    /\ "t1" \in replacedAttr
    /\ kids["t1"] = << Bar("t1", BADGE_TYPES.BLUE) >>

---------------------------------------------------------------------------
(* The order of the steps of a full rescan (Spec).                         *)

\* What the follow-state discovery of a rescan started in state s would
\* find on the document with the held content attached again.
ScanAfterRestore(s) ==
    scanPageForFollowedUsers(restoreReplaced([s EXCEPT !.onFollowingTab = "null"]))

\* C21 as stated: the discovery of a full rescan sees the document with the
\* content of the replaced containers attached again: every identity that
\* discovery finds there is in followedUsersSet after the rescan, and no
\* container of such an identity is replaced when the rescan ends.
C21_Original ==
    [][ (initPc = "done" /\ lastOp'.op = "rescan") =>
            LET r == ScanAfterRestore(Cur)
            IN  /\ r.followedUsersSet \subseteq followedUsersSet'
                /\ \A c \in replacedAttr' :
                      extractUsername(r, c) \notin r.followedUsersSet ]_vars

---------------------------------------------------------------------------
(* The periodic reconciliation with configuration changes.  The runtime    *)
(* stays valid; served counts the interval callbacks only.                 *)

NextPeriodic ==
    \/ InitSyncDone
    \/ InitLocalDone
    \/ DeliverMutations
    \/ PeriodicTickServed
    \/ \E cfg \in Configs : StorageChange(cfg)
    \/ LoadSyncDone
    \/ LoadLocalDone
    \/ \E c \in TopLevel : \E k \in PageRenders(c) : PageAdds(c, k)
    \/ UserFollows

\* The observer callback is due: queued records are delivered.
RecordsDue == records # << >> /\ records' = << >>

\* A storage read of a listener's loadSettings() completes.
SyncReadDue == Quiet /\ loadsSync > 0 /\ loadsSync' = loadsSync - 1
LocalReadDue == Quiet /\ loadsLocal > 0 /\ loadsLocal' = loadsLocal - 1

\* Weak fairness of the interval callback, of the observer callback and of
\* the completion of the storage reads.
FairPeriodic ==
    /\ WF_served(IntervalDue)
    /\ WF_records(RecordsDue)
    /\ WF_loadsSync(SyncReadDue)
    /\ WF_loadsLocal(LocalReadDue)

SpecPeriodic == Init /\ [][NextPeriodic]_vars /\ FairPeriodic

\* C22 as stated: an interval callback escalates to a full rescan exactly
\* when its discovery enlarged followedUsersSet; and from every state in
\* which init has run and suppression is enabled, whatever the
\* configuration was at startup, an interval callback eventually runs.
C22_Original ==
    /\ [][ served' # served =>
              (lastOp'.op = "rescan" <=>
                  Cardinality(scanPageForFollowedUsers(Cur).followedUsersSet)
                      > Cardinality(followedUsersSet)) ]_vars
    /\ \A v \in {0, 1} :
          (initPc = "done" /\ settings.enabled /\ served = v) ~> (served # v)

---------------------------------------------------------------------------
(* The shape of the names in followedUsersSet.  The page may render the    *)
(* follow control of a profile card with a data-testid whose part before   *)
(* "-unfollow" is not a handle.                                            *)

\* Whether str matches /^[a-z0-9_]{1,15}$/, for the strings of the model.
IsIdentity(str) ==
    CASE str = "alice" -> TRUE
      [] str = "bob" -> TRUE
      [] str = "home" -> TRUE
      [] str = "Alice" -> FALSE
      [] str = "Bob" -> FALSE
      [] str = "1890123456789012345" -> FALSE
      [] OTHER -> FALSE

\* A follow control named by an account id of 19 digits.
IdUnfollowButton == Button("1890123456789012345-unfollow", "Following")

IdentRenders(c) ==
    IF c = "u2" THEN PageRenders(c) \cup { << Link("/Bob"), IdUnfollowButton >> }
    ELSE PageRenders(c)

NextIdent ==
    \/ InitSyncDone
    \/ InitLocalDone
    \/ DeliverMutations
    \/ PeriodicTick
    \/ \E p \in Pathnames : Navigate(p)
    \/ RescanTimerFires
    \/ FollowedSaveTimerFires
    \/ \E c \in TopLevel : \E k \in IdentRenders(c) : PageAdds(c, k)
    \/ UserFollows
    \/ \E t \in Tabs : TabSwitch(t)

SpecIdent == InitStore /\ [][NextIdent]_vars

\* C23 as stated: every member of followedUsersSet is a lower-cased string
\* of 1 to 15 characters from [a-z0-9_], whichever signal or load added it.
C23_Original == \A u \in followedUsersSet : IsIdentity(u)

---------------------------------------------------------------------------
(* hiddenCount against the replaced containers (SpecStore).                *)

\* The containers of the document that carry the replaced marker.
ReplacedInDocument == Connected(Cur) \cap replacedAttr

\* C24 as stated: right after a full rescan that ran to its end hiddenCount
\* is the number of
\* containers that carry the replaced marker, 0 with suppression disabled;
\* and at any time hiddenCount is at least the number of replaced
\* containers in the document.
C24_Original ==
    /\ (lastOp.op = "rescan" /\ ~lastOp.raised) =>
          /\ hiddenCount = Cardinality(replacedAttr)
          /\ ~settings.enabled => hiddenCount = 0
    /\ hiddenCount >= Cardinality(ReplacedInDocument)

---------------------------------------------------------------------------
(* The held content of the replaced containers (Spec).                     *)

\* C25: a container carries the replaced marker exactly when it holds
\* original content; a step that hides a container puts exactly the
\* children it had into its holder, a step that leaves it replaced leaves
\* the holder as it is, and a step that ends its replacement attaches
\* exactly the held children again, in their order; and restoreElement on
\* a container without held content changes nothing.
C25_HeldContentNeverLost ==
    /\ [](\A c \in Containers : c \in replacedAttr <=> blockBlueOriginal[c].has)
    /\ [](\A c \in Containers :
             ~blockBlueOriginal[c].has => restoreElement(Cur, c) = Cur)
    /\ [][ \A c \in Containers :
              /\ (c \notin replacedAttr /\ c \in replacedAttr') =>
                    /\ blockBlueOriginal'[c].nodes = kids[c]
                    /\ Len(kids'[c]) = 1 /\ kids'[c][1].kind = "bar"
              /\ (c \in replacedAttr /\ c \in replacedAttr') =>
                    /\ blockBlueOriginal'[c] = blockBlueOriginal[c]
                    /\ Len(kids'[c]) = 1 /\ kids'[c][1].kind = "bar"
              /\ (c \in replacedAttr /\ c \notin replacedAttr') =>
                    /\ kids'[c] = blockBlueOriginal[c].nodes
                    /\ blockBlueOriginal'[c] = NoOriginal ]_vars

\* C25 witness: the post t2, with the profile card it embeds, was hidden
\* and then restored by a click, while t1 is still replaced.
C25_Witness ==
    /\ lastOp.op = "click"
    /\ "t2" \in processedAttr /\ "t2" \notin replacedAttr
    /\ IsConnected(Cur, "t2")
    /\ kids["t2"] = PageKids["t2"]
    /\ "t1" \in replacedAttr
    /\ blockBlueOriginal["t1"].nodes = PageKids["t1"]

---------------------------------------------------------------------------
(* Overlapping reloads.  After init the popup saves configurations         *)
(* (popup.js:53-66): each save that changes a value reaches the storage    *)
(* listener and each save sends SETTINGS_CHANGED; up to MaxOverlap         *)
(* loadSettings() calls are suspended at once while the page adds a post.  *)
(* No follow control is rendered and nobody clicks.                        *)

\* chrome.storage.sync.set of saveSettings changes the stored
\* configuration: the listener of content.js:728-736 starts a reload.
SaveStores(cfg) ==
    /\ Quiet
    /\ Listening
    /\ cfg # ConfigOf(sync)
    /\ sync' = Stored(cfg, sync.hiddenCount)
    /\ IF storageListener(ChangedKeys(sync, sync'), "sync")
       THEN /\ PendingLoads < MaxOverlap
            /\ loadsSync' = loadsSync + 1
       ELSE loadsSync' = loadsSync
    /\ Commit(Cur, "storageChange")
    /\ UNCHANGED << pathname, activeTab, local, contextValid, initPc, listeners,
                    loadsLocal, rescanTimers, intervalOn, unit, served >>

\* notifyContentScript of saveSettings: the listener of content.js:709-713
\* starts a reload.
SaveNotifies ==
    /\ Quiet
    /\ Listening
    /\ IF onMessage(Cur, "SETTINGS_CHANGED").reload
       THEN /\ PendingLoads < MaxOverlap
            /\ loadsSync' = loadsSync + 1
       ELSE loadsSync' = loadsSync
    /\ Commit(Cur, "settingsChanged")
    /\ UNCHANGED << EnvVars, initPc, listeners, loadsLocal, rescanTimers,
                    intervalOn, unit, served >>

NextReload ==
    \/ InitSyncDone
    \/ InitLocalDone
    \/ DeliverMutations
    \/ \E cfg \in Configs : SaveStores(cfg)
    \/ SaveNotifies
    \/ LoadSyncDone
    \/ LoadLocalDone
    \/ PageAdds("t2", PageKids["t2"])

\* init() resumes from one of its two storage reads.
InitDue ==
    /\ Quiet
    /\ initPc # "done"
    /\ \E pc \in {"local", "done"} : pc # initPc /\ initPc' = pc

\* Weak fairness of init, of the observer callback and of the completion
\* of the storage reads.
FairReload ==
    /\ WF_initPc(InitDue)
    /\ WF_records(RecordsDue)
    /\ WF_loadsSync(SyncReadDue)
    /\ WF_loadsLocal(LocalReadDue)

SpecReload == Init /\ [][NextReload]_vars /\ FairReload

\* init has run, no reload is suspended and no mutation record is queued.
Settled == initPc = "done" /\ PendingLoads = 0 /\ Quiet

\* The cached configuration and allow-list are the stored ones, and a
\* container of the document is replaced exactly when getBlockBadgeType
\* selects it, with its content attached, under them.
Consistent ==
    /\ settings = ConfigOf(sync)
    /\ whitelistSet = { ToLowerCase(u) : u \in Range(sync.whitelist) }
    /\ \A c \in Connected(Cur) :
          c \in replacedAttr <=>
              getBlockBadgeType(restoreElement(Cur, c), c) # Null

\* A save reaches the script: the stored configuration changes or a
\* reload is started.
SaveArrives == sync' # sync \/ loadsSync' > loadsSync

\* C26: whenever init has run, no reload is suspended and no record is
\* queued, the cached configuration and allow-list equal the stored ones
\* and the replaced containers of the document are exactly those that
\* getBlockBadgeType selects; at most MaxOverlap reloads are suspended; and
\* unless saves keep arriving for ever, the script ends up, and stays, in
\* such a state, however the reloads, their two reads and the mutation
\* batches interleaved.
C26_OverlappingReloadsConverge ==
    /\ [](Settled => Consistent)
    /\ []<><<SaveArrives>>_vars \/ <>[](Settled /\ Consistent)

\* C26 witness: two reloads are suspended, one at each of its two reads,
\* the first has already taken a configuration that the second save has
\* replaced in storage, and a container is still replaced under the old one.
C26_Witness ==
    /\ loadsSync = 1 /\ loadsLocal = 1
    /\ settings # ConfigOf(sync)
    /\ settings # InitialSettings
    /\ replacedAttr # {}

====
